---- MODULE Spec2Model ----
(***************************************************************************)
(* A model of autonetgen, one part per component:                          *)
(*   - the asyncio TrafficInjector (backend/traffic_injection),            *)
(*   - the background tasks of the inference and deployment engines,       *)
(*   - the Terraform endpoints of the backend HTTP API,                    *)
(*   - the storage-mode /api/analyze aggregation loop,                     *)
(*   - AnalysisOrchestrator.run,                                           *)
(*   - AdaptiveGraphRenderer.render_graph,                                 *)
(*   - the temporary files of the analyze and terraform/init handlers,     *)
(*   - the builders of a NetworkData object and its dictionary round trip, *)
(*   - role inference, the generated instances, and get_outputs,           *)
(*   - OutputGenerator.generate and the injector's protocol handlers,      *)
(*   - TrafficPatternGenerator,                                            *)
(*   - the resources of the bundle TerraformGenerator.generate writes,     *)
(*   - GCSFileManager.move_file_to_processed,                              *)
(*   - the parser /api/analyze applies to each object,                     *)
(*   - infer_host_roles beside enrich_host_roles,                          *)
(*   - the subnets of the enrichment phase.                                *)
(* Each part has its own specification (SpecInj, SpecPub, SpecTf, SpecAgg, *)
(* SpecRun, SpecRender, SpecClean, SpecData, SpecRoles, SpecGenerator,     *)
(* SpecOutputs, SpecOutgen, SpecHandlers, SpecPatterns, SpecBundle,        *)
(* SpecMove, SpecDetect, SpecEquiv, SpecSubnets); the variables of the     *)
(* other parts stay at their initial value.                                *)
(***************************************************************************)
EXTENDS Integers, Sequences, FiniteSets, TLC

VARIABLES
    \* ---- TrafficInjector ----
    max_concurrent_tests,  \* self.max_concurrent_tests, the constructor's argument
    active_tests,   \* self.active_tests: test id -> task
    test_results,   \* self.test_results: result key -> TestResult object
    tasks,          \* the _execute_traffic_test tasks
    children,       \* the _execute_single_pattern tasks of each test task
    stops,          \* stop_traffic_test calls suspended in `await task`
    last,           \* the call or step that was taken last, with what it returned
    \* ---- inference and deployment engines ----
    env_cfg,        \* os.environ of the service: OUTPUT_BUCKET and PUBSUB_TOPIC set or not
    bg,             \* the background threads started by the accepted requests
    published,      \* the completion messages each background thread has published
    \* ---- Terraform endpoints of the backend API ----
    tf_requests,    \* the request threads of the /api/terraform/* endpoints
    \* ---- storage-mode /api/analyze ----
    storage,        \* the objects the request names, in request order
    next_blob,      \* position of the `for blob_name in blob_names` loop
    network_data,   \* orchestrator.analyzer.network_data
    result_data,    \* the aggregate the endpoint builds
    succeeded,      \* the objects whose orchestrator.run returned True
    response,       \* the endpoint's HTTP status, 0 while the loop runs
    \* ---- AnalysisOrchestrator.run ----
    run_args,       \* the arguments of the call
    run_pc,         \* the statement of run the call is at
    run_success,    \* the local variable `success`
    run_trace,      \* the parser, enricher and generators invoked so far, with their outcome
    run_ret,        \* what run returned, "None" while it runs
    \* ---- AdaptiveGraphRenderer.render_graph ----
    gr_input,       \* the graph's node and edge count and the input file's size
    gr_config,      \* the configuration PerformanceConfig.get_config returned
    gr_pc,          \* the statement of render_graph the call is at
    gr_index,       \* position of the loop over fallback_order
    gr_attempts,    \* the strategies whose render ran, in order, with their outcome
    gr_result,      \* the local variable `result`
    \* ---- temporary files of /api/analyze and /api/terraform/init ----
    rq_kind,        \* which endpoint handles the request
    rq_count,       \* how many input files the request carries or names
    rq_pc,          \* the statement the handler is at
    rq_index,       \* position of the handler's loop over the input files
    rq_outcomes,    \* what happened to each input file so far
    rq_status,      \* the HTTP status returned, 0 while the handler runs
    tmp_paths,      \* the temporary files and directories of the request that exist
    \* ---- NetworkData builders ----
    nd_kind,        \* which builder fills the object
    nd_pc,          \* "build" while the builder runs, then "done", "loaded" after the round trip
    nd_data,        \* the NetworkData object being built
    nd_steps,       \* rows, packets or calls processed so far
    nd_last,        \* the row the CSV parser processed last
    nd_accepted,    \* the parser's local variable valid_rows
    nd_copy,        \* NetworkData().from_dict(x.to_dict())
    nd_ret,         \* what the builder returned
    \* ---- infer_host_roles and enrich_host_roles ----
    ri_engine,      \* the class whose role inference runs
    ri_data,        \* the connections and the host_ports of the NetworkData
    ri_pc,          \* the statement of the loop over the hosts the call is at
    ri_host,        \* the loop variable `host`
    ri_ports,       \* the records of host_ports[host] the inner loop has not visited
    ri_role,        \* the local variable `role`
    host_roles,     \* self.host_roles: host -> role
    \* ---- TerraformGenerator.generate, the instances ----
    tg_roles,       \* the host_roles argument
    tg_pc,          \* the statement of the loop over host_roles the call is at
    tg_instances,   \* host -> machine type, tags and start-up script written to instances.tf
    \* ---- TerraformManager.get_outputs ----
    tm_pc,          \* the statement of get_outputs the call is at
    tm_process,     \* what subprocess.run did: raised, or the exit code with stdout and stderr
    tm_return,      \* the dictionary get_outputs returned
    tm_raised,      \* TRUE when an exception left get_outputs
    \* ---- OutputGenerator.generate ----
    og_generators,  \* self.generators, in registration order
    og_paths,       \* output_paths: generator -> "given", "missing" (key absent) or "none"
    og_pc,          \* the statement of generate the call is at
    og_index,       \* position of the loop over self.generators
    og_invoked,     \* the generators whose generate was called, in order
    og_results,     \* the local dictionary `results`, as the set of its keys
    og_raised,      \* TRUE when an exception left generate
    \* ---- the protocol handlers of one traffic test ----
    hd_patterns,    \* the traffic types of the test's patterns, in list order
    hd_libs,        \* the client libraries that can be imported
    hd_children,    \* the _execute_single_pattern task of each pattern: its position and its result
    hd_cancelled,   \* TRUE once the test task was cancelled
    \* ---- TrafficPatternGenerator ----
    pg_call,        \* the method called: generate_patterns_from_analysis or generate_synthetic_load_test
    pg_input,       \* the arguments: connections, infrastructure hosts, duration, base rate, scenarios
    pg_pc,          \* the generator the call is at
    pg_index,       \* position of the loop over top_connections
    pg_yielded,     \* the connections, by position in the dictionary, that gave patterns
    pg_patterns,    \* the list `patterns`
    \* ---- TerraformGenerator.generate: the resources of the bundle ----
    tfb_input,      \* data['host_roles'] keys in dictionary order and data['subnets']
    tfb_pc,         \* the file generate is writing
    tfb_index,      \* position of the loop over host_roles
    tfb_subnet_map, \* gcp_subnet_map: subnet string to subnetwork resource name
    tfb_declared,   \* resources declared in the files written so far, as <<type, name>>
    tfb_references, \* resource references written so far
    \* ---- GCSFileManager.move_file_to_processed ----
    mv_bucket,      \* the bucket: object name to content
    mv_before,      \* the bucket when the call started
    mv_name,        \* the argument blob_name
    mv_pc,          \* the statement the call is at
    mv_return,      \* the returned name
    mv_raised,      \* the exception the call raised, "" for none
    \* ---- /api/analyze in storage mode: the parser chosen for each object ----
    dt_request,     \* the request: blob_names and type
    dt_pc,          \* the statement the loop over blob_names is at
    dt_index,       \* position in blob_names
    dt_temp,        \* temp_file_path, the name of the local copy
    dt_file_type,   \* file_type inside orchestrator.run
    dt_applied,     \* the parser applied to each object so far, in order
    \* ---- infer_host_roles and enrich_host_roles on the same data ----
    eq_data,        \* the NetworkData both methods read
    eq_order,       \* for each host, the order its port set is iterated in
    eq_pc,          \* "running" while a loop has hosts left, then "done"
    eq_analyzer,    \* NetworkAnalyzer.host_roles
    eq_enricher,    \* host_roles of enrich_host_roles
    \* ---- AnalysisOrchestrator._run_enrichment_phase: the subnet of each host ----
    sn_hosts,       \* analyzer.hosts, each address a list of four numbers
    sn_pc,          \* the statement the phase is at
    sn_subnets,     \* analyzer.subnets
    sn_subnet_map,  \* subnet_map of infer_host_roles
    sn_prefixes,    \* the prefixes the loop `for prefix in [24, 16, 8]` has left
    sn_nodes        \* the subnet attribute of each node of network_graph

injVars == <<max_concurrent_tests, active_tests, test_results, tasks, children, stops, last>>
pubVars == <<env_cfg, bg, published>>
tfVars == <<tf_requests>>
aggVars == <<storage, next_blob, network_data, result_data, succeeded, response>>
runVars == <<run_args, run_pc, run_success, run_trace, run_ret>>
renderVars == <<gr_input, gr_config, gr_pc, gr_index, gr_attempts, gr_result>>

\* the parts that were modelled first, and the parts added to them
baseVars == <<injVars, pubVars, tfVars, aggVars, runVars>>
cleanVars == <<rq_kind, rq_count, rq_pc, rq_index, rq_outcomes, rq_status, tmp_paths>>
dataVars == <<nd_kind, nd_pc, nd_data, nd_steps, nd_last, nd_accepted, nd_copy, nd_ret>>
rolesVars == <<ri_engine, ri_data, ri_pc, ri_host, ri_ports, ri_role, host_roles>>
genVars == <<tg_roles, tg_pc, tg_instances>>
outputsVars == <<tm_pc, tm_process, tm_return, tm_raised>>
outgenVars == <<og_generators, og_paths, og_pc, og_index, og_invoked, og_results, og_raised>>
handlersVars == <<hd_patterns, hd_libs, hd_children, hd_cancelled>>
patternsVars == <<pg_call, pg_input, pg_pc, pg_index, pg_yielded, pg_patterns>>
bundleVars == <<tfb_input, tfb_pc, tfb_index, tfb_subnet_map, tfb_declared, tfb_references>>
moveVars == <<mv_bucket, mv_before, mv_name, mv_pc, mv_return, mv_raised>>
detectVars == <<dt_request, dt_pc, dt_index, dt_temp, dt_file_type, dt_applied>>
equivVars == <<eq_data, eq_order, eq_pc, eq_analyzer, eq_enricher>>
subnetsVars == <<sn_hosts, sn_pc, sn_subnets, sn_subnet_map, sn_prefixes, sn_nodes>>
extVars == <<renderVars, cleanVars, dataVars, rolesVars, genVars, outputsVars, outgenVars, handlersVars, patternsVars, bundleVars, moveVars, detectVars, equivVars, subnetsVars>>

vars == <<baseVars, extVars>>

(***************************************************************************)
(* Bounds of the model                                                     *)
(***************************************************************************)
MaxTasks == 2        \* test tasks alive at the same time
MaxPatterns == 1     \* patterns in one start_traffic_test call
MaxRequests == 1     \* requests one pattern sends
MaxStops == 1        \* stop_traffic_test calls in flight
MaxConcurrent == 2   \* the largest max_concurrent_tests an injector is built with

\* the test ids callers use
TestIds == {"a", "b"}

TaskIds == 1..MaxTasks
Callers == 1..MaxStops

(***************************************************************************)
(* TrafficPattern, TestStatus, TestResult                                  *)
(***************************************************************************)
\* the traffic types that self.protocol_handlers has a handler for
protocol_handlers == {"http", "https", "tcp", "udp", "modbus", "mqtt", "dns"}

RunningStatus == "running"
TerminalStatuses == {"completed", "failed", "cancelled"}

GoodPattern(ty) ==
    [destination_ip |-> "10.0.0.2", destination_port |-> 80,
     duration_seconds |-> 5, requests_per_second |-> 10, traffic_type |-> ty]

\* the patterns callers pass: well-formed ones and one per validation rule
PatternInputs ==
    { GoodPattern("http"), GoodPattern("s7comm"),
      [GoodPattern("http") EXCEPT !.destination_ip = ""],
      [GoodPattern("http") EXCEPT !.destination_port = 0],
      [GoodPattern("http") EXCEPT !.destination_port = 65536],
      [GoodPattern("http") EXCEPT !.duration_seconds = 0],
      [GoodPattern("http") EXCEPT !.requests_per_second = -1] }

PatternLists ==
    UNION { [1..n -> PatternInputs] : n \in 0..MaxPatterns }

\* f"{test_id}_pattern_{i}", i counted from 0
PatternId(test_id, i) == test_id \o "_pattern_" \o ToString(i)

\* a validation whose port range is one too wide
PatternErrorWidePort(p) ==
    IF p.destination_ip = "" THEN "ip"
    ELSE IF ~(1 <= p.destination_port /\ p.destination_port <= 65536) THEN "port"
    ELSE IF p.duration_seconds <= 0 THEN "duration"
    ELSE IF p.requests_per_second <= 0 THEN "rate"
    ELSE "ok"

\* the exception _validate_patterns raises for one pattern, or "ok"
PatternError(p) ==
    IF p.destination_ip = "" THEN "ip"
    ELSE IF ~(1 <= p.destination_port /\ p.destination_port <= 65535) THEN "port"
    ELSE IF p.duration_seconds <= 0 THEN "duration"
    ELSE IF p.requests_per_second <= 0 THEN "rate"
    ELSE "ok"

\* _validate_patterns: the first violation in list order, or "ok"
validate_patterns(patterns) ==
    IF Len(patterns) = 0 THEN "empty"
    ELSE LET bad == { i \in 1..Len(patterns) : PatternError(patterns[i]) # "ok" }
         IN  IF bad = {} THEN "ok"
             ELSE PatternError(patterns[CHOOSE i \in bad : \A j \in bad : i <= j])

\* the TestResult _execute_single_pattern builds before it stores it
NewResult(pattern_id) ==
    [pattern_id |-> pattern_id, status |-> RunningStatus, end_time |-> "None",
     total_requests |-> 0, successful_requests |-> 0, failed_requests |-> 0,
     connection_errors |-> 0, timeout_errors |-> 0, error_messages |-> 0]

NoResult == [status |-> "absent"]
NoTask == [st |-> "none", id |-> "", patterns |-> <<>>, must_cancel |-> FALSE]
NoChild == [st |-> "none", cancel |-> FALSE, result |-> NoResult]
NoStop == [id |-> "", task |-> 0]
NoOwner == <<0, 0>>
NoCall == [op |-> "none", id |-> "", ret |-> "None"]
Step == [op |-> "step", id |-> "", ret |-> "None"]

Finished(st) == st \in {"done", "cancelled"}

ActiveIds == DOMAIN active_tests

\* a bound test that lets one test too many in
AtCapacityStrict == Cardinality(ActiveIds) > max_concurrent_tests

\* len(self.active_tests) >= self.max_concurrent_tests
AtCapacity == Cardinality(ActiveIds) >= max_concurrent_tests

\* An entry of self.test_results is a reference to a TestResult object.  While
\* the pattern task that made the object runs, the object is that task's
\* `result` (owner is the task); once the task has ended, the dictionary is the
\* only holder and the entry carries the object's value.
Stored(v) == [owner |-> NoOwner, value |-> v]
Shared(t, i) == [owner |-> <<t, i>>, value |-> NoResult]

\* the TestResult found under a key of self.test_results
ResultAt(tr, ch, key) ==
    IF tr[key].owner = NoOwner THEN tr[key].value
    ELSE ch[tr[key].owner[1]][tr[key].owner[2]].result

\* what get_test_status(test_id) reports, None when the id has no result
get_test_status(test_id) ==
    IF test_id \in DOMAIN test_results
    THEN [test_id |-> test_id,
          status |-> ResultAt(test_results, children, test_id).status,
          is_active |-> test_id \in ActiveIds,
          result |-> ResultAt(test_results, children, test_id)]
    ELSE [test_id |-> "None"]

Drop(f, k) == [x \in (DOMAIN f) \ {k} |-> f[x]]
Put(f, k, v) == [x \in (DOMAIN f) \cup {k} |-> IF x = k THEN v ELSE f[x]]

\* a finished task object lives on while the dictionary or a suspended
\* stop_traffic_test call still holds it; after that its slot is free again
Referenced(t, act, stp) ==
    \/ \E id \in DOMAIN act : act[id] = t
    \/ \E c \in Callers : stp[c].task = t

Collect(tk, act, stp) ==
    [t \in TaskIds |->
       IF Finished(tk[t].st)
       THEN IF Referenced(t, act, stp) THEN [NoTask EXCEPT !.st = tk[t].st] ELSE NoTask
       ELSE tk[t]]

\* what no step of the injector changes
InjFrame == UNCHANGED <<max_concurrent_tests, pubVars, tfVars, aggVars, runVars, extVars>>

\* the parts that a specification does not exercise
InjIdle ==
    /\ max_concurrent_tests = 1
    /\ active_tests = << >>
    /\ test_results = << >>
    /\ tasks = << >>
    /\ children = << >>
    /\ stops = << >>
    /\ last = NoCall

PubIdle == env_cfg = << >> /\ bg = << >> /\ published = << >>

TfIdle == tf_requests = << >>

AggIdle ==
    /\ storage = << >>
    /\ next_blob = 1
    /\ network_data = << >>
    /\ result_data = << >>
    /\ succeeded = {}
    /\ response = 0

RunIdle ==
    /\ run_args = << >>
    /\ run_pc = "idle"
    /\ run_success = FALSE
    /\ run_trace = << >>
    /\ run_ret = "None"

RenderIdle ==
    /\ gr_input = << >>
    /\ gr_config = << >>
    /\ gr_pc = "idle"
    /\ gr_index = 1
    /\ gr_attempts = << >>
    /\ gr_result = "None"

BaseIdle == InjIdle /\ PubIdle /\ TfIdle /\ AggIdle /\ RunIdle

CleanIdle ==
    /\ rq_kind = ""
    /\ rq_count = 1
    /\ rq_pc = "idle"
    /\ rq_index = 1
    /\ rq_outcomes = << >>
    /\ rq_status = 0
    /\ tmp_paths = {}

DataIdle ==
    /\ nd_kind = ""
    /\ nd_pc = "idle"
    /\ nd_data = << >>
    /\ nd_steps = 0
    /\ nd_last = << >>
    /\ nd_accepted = 0
    /\ nd_copy = << >>
    /\ nd_ret = "None"

RolesIdle ==
    /\ ri_engine = ""
    /\ ri_data = << >>
    /\ ri_pc = "idle"
    /\ ri_host = ""
    /\ ri_ports = {}
    /\ ri_role = ""
    /\ host_roles = << >>

GenIdle ==
    /\ tg_roles = << >>
    /\ tg_pc = "idle"
    /\ tg_instances = << >>

OutputsIdle ==
    /\ tm_pc = "idle"
    /\ tm_process = << >>
    /\ tm_return = << >>
    /\ tm_raised = FALSE

OutgenIdle ==
    /\ og_generators = << >>
    /\ og_paths = << >>
    /\ og_pc = "idle"
    /\ og_index = 1
    /\ og_invoked = << >>
    /\ og_results = {}
    /\ og_raised = FALSE

HandlersIdle ==
    /\ hd_patterns = << >>
    /\ hd_libs = {}
    /\ hd_children = << >>
    /\ hd_cancelled = FALSE

PatternsIdle ==
    /\ pg_call = ""
    /\ pg_input = << >>
    /\ pg_pc = "idle"
    /\ pg_index = 1
    /\ pg_yielded = {}
    /\ pg_patterns = << >>

BundleIdle ==
    /\ tfb_input = << >>
    /\ tfb_pc = "idle"
    /\ tfb_index = 1
    /\ tfb_subnet_map = << >>
    /\ tfb_declared = {}
    /\ tfb_references = {}

MoveIdle ==
    /\ mv_bucket = << >>
    /\ mv_before = << >>
    /\ mv_name = << >>
    /\ mv_pc = "idle"
    /\ mv_return = << >>
    /\ mv_raised = ""

DetectIdle ==
    /\ dt_request = << >>
    /\ dt_pc = "idle"
    /\ dt_index = 1
    /\ dt_temp = << >>
    /\ dt_file_type = ""
    /\ dt_applied = << >>

EquivIdle ==
    /\ eq_data = << >>
    /\ eq_order = << >>
    /\ eq_pc = "idle"
    /\ eq_analyzer = << >>
    /\ eq_enricher = << >>

SubnetsIdle ==
    /\ sn_hosts = {}
    /\ sn_pc = "idle"
    /\ sn_subnets = << >>
    /\ sn_subnet_map = << >>
    /\ sn_prefixes = << >>
    /\ sn_nodes = << >>

ExtIdle == RenderIdle /\ CleanIdle /\ DataIdle /\ RolesIdle /\ GenIdle /\ OutputsIdle /\ OutgenIdle /\ HandlersIdle /\ PatternsIdle /\ BundleIdle /\ MoveIdle /\ DetectIdle /\ EquivIdle /\ SubnetsIdle

(***************************************************************************)
(* TrafficInjector: initial state                                          *)
(***************************************************************************)
InjInit ==
    /\ max_concurrent_tests \in 1..MaxConcurrent
    /\ active_tests = << >>
    /\ test_results = << >>
    /\ tasks = [t \in TaskIds |-> NoTask]
    /\ children = [t \in TaskIds |-> [i \in 1..MaxPatterns |-> NoChild]]
    /\ stops = [c \in Callers |-> NoStop]
    /\ last = NoCall
    /\ PubIdle /\ TfIdle /\ AggIdle /\ RunIdle /\ ExtIdle

(***************************************************************************)
(* start_traffic_test(patterns, test_id): no await, one atomic step        *)
(***************************************************************************)
StartError(patterns, test_id) ==
    IF AtCapacity THEN "too_many"
    ELSE IF test_id \in ActiveIds THEN "duplicate"
    ELSE validate_patterns(patterns)

FreeTasks == { t \in TaskIds : tasks[t].st = "none" }

start_traffic_test(patterns, test_id) ==
    IF StartError(patterns, test_id) # "ok"
    THEN /\ last' = [op |-> "start", id |-> test_id, ret |-> "raised"]
         /\ UNCHANGED <<active_tests, test_results, tasks, children, stops>>
    ELSE /\ FreeTasks # {}
         /\ LET t == CHOOSE x \in FreeTasks : \A y \in FreeTasks : x <= y IN
            /\ tasks' = [tasks EXCEPT ![t] =
                  [st |-> "created", id |-> test_id,
                   patterns |-> [i \in 1..Len(patterns) |-> patterns[i].traffic_type],
                   must_cancel |-> FALSE]]
            /\ active_tests' = Put(active_tests, test_id, t)
         /\ last' = [op |-> "start", id |-> test_id, ret |-> test_id]
         /\ UNCHANGED <<test_results, children, stops>>

Start ==
    /\ InjFrame
    /\ \E test_id \in TestIds, patterns \in PatternLists :
          start_traffic_test(patterns, test_id)

(***************************************************************************)
(* _execute_traffic_test                                                   *)
(***************************************************************************)
\* the task's first step: it spawns one task per pattern and awaits gather;
\* a task cancelled before it ran never enters the try/finally
TestTaskStart(t) ==
    /\ InjFrame
    /\ tasks[t].st = "created"
    /\ IF tasks[t].must_cancel
       THEN /\ tasks' = Collect([tasks EXCEPT ![t].st = "cancelled"], active_tests, stops)
            /\ UNCHANGED children
       ELSE /\ tasks' = [tasks EXCEPT ![t].st = "gathering"]
            /\ children' = [children EXCEPT ![t] =
                  [i \in 1..MaxPatterns |->
                     IF i <= Len(tasks[t].patterns)
                     THEN [NoChild EXCEPT !.st = "created"] ELSE NoChild]]
    /\ last' = Step
    /\ UNCHANGED <<active_tests, test_results, stops>>

ChildrenOf(t) == { i \in 1..MaxPatterns : children[t][i].st # "none" }

\* finally: if test_id in self.active_tests: del self.active_tests[test_id]
RemoveActive(test_id) ==
    IF test_id \in ActiveIds THEN Drop(active_tests, test_id) ELSE active_tests

\* gather has every child's outcome (or, cancelled, raises CancelledError):
\* _aggregate_results does nothing, then the finally block runs
TestTaskFinish(t) ==
    /\ InjFrame
    /\ tasks[t].st = "gathering"
    /\ \A i \in ChildrenOf(t) : Finished(children[t][i].st)
    /\ active_tests' = RemoveActive(tasks[t].id)
    /\ tasks' = Collect([tasks EXCEPT ![t].st =
                            IF tasks[t].must_cancel THEN "cancelled" ELSE "done"],
                        active_tests', stops)
    /\ children' = [children EXCEPT ![t] = [i \in 1..MaxPatterns |-> NoChild]]
    /\ last' = Step
    /\ UNCHANGED <<test_results, stops>>

(***************************************************************************)
(* _execute_single_pattern and the protocol handler it awaits              *)
(***************************************************************************)
\* except Exception: status FAILED, the message appended; finally: end_time
FailedResult(r) ==
    [r EXCEPT !.status = "failed", !.end_time = "set",
              !.error_messages = r.error_messages + 1]

\* the handler returned: status COMPLETED; finally: end_time
CompletedResult(r) == [r EXCEPT !.status = "completed", !.end_time = "set"]

\* CancelledError is not an Exception: only the finally block runs
CancelledResult(r) == [r EXCEPT !.end_time = "set"]

\* the pattern task ends holding result r: the dictionary entry that still
\* refers to its object now carries r
Release(t, i, r) ==
    [k \in DOMAIN test_results |->
       IF test_results[k].owner = <<t, i>> THEN Stored(r) ELSE test_results[k]]

\* the pattern task's first step, up to the handler's first await
PatternStart(t, i) ==
    /\ InjFrame
    /\ children[t][i].st = "created"
    /\ IF children[t][i].cancel
       THEN /\ children' = [children EXCEPT ![t][i] = [NoChild EXCEPT !.st = "cancelled"]]
            /\ UNCHANGED test_results
       ELSE LET pid == PatternId(tasks[t].id, i - 1)
                r == NewResult(pid) IN
            IF tasks[t].patterns[i] \in protocol_handlers
            THEN /\ test_results' = Put(test_results, pid, Shared(t, i))
                 /\ children' = [children EXCEPT ![t][i] =
                        [st |-> "request", cancel |-> FALSE, result |-> r]]
            ELSE /\ test_results' = Put(test_results, pid, Stored(FailedResult(r)))
                 /\ children' = [children EXCEPT ![t][i] = [NoChild EXCEPT !.st = "done"]]
    /\ last' = Step
    /\ UNCHANGED <<active_tests, tasks, stops>>

RequestOutcomes == {"ok", "http_error", "timeout", "connection_error", "other"}

\* the outcomes the injector's specification lets a request have
ExploredOutcomes == {"ok", "timeout"}

\* _handle_http_traffic: the counters after one request
CountRequest(r, outcome) ==
    [r EXCEPT
       !.total_requests = r.total_requests + 1,
       !.successful_requests = IF outcome = "ok" THEN @ + 1 ELSE @,
       !.failed_requests = IF outcome # "ok" THEN @ + 1 ELSE @,
       !.timeout_errors = IF outcome = "timeout" THEN @ + 1 ELSE @,
       !.connection_errors = IF outcome = "connection_error" THEN @ + 1 ELSE @,
       !.error_messages = IF outcome # "ok" THEN @ + 1 ELSE @]

\* the awaited request ends; the handler goes on to asyncio.sleep
RequestDone(t, i, outcome) ==
    /\ InjFrame
    /\ children[t][i].st = "request"
    /\ ~children[t][i].cancel
    /\ children' = [children EXCEPT ![t][i].st = "sleep",
                                    ![t][i].result = CountRequest(@, outcome)]
    /\ last' = Step
    /\ UNCHANGED <<active_tests, test_results, tasks, stops>>

\* the sleep ends: another request while datetime.now() < end_time, or the
\* handler returns
SleepDone(t, i, more) ==
    /\ InjFrame
    /\ children[t][i].st = "sleep"
    /\ ~children[t][i].cancel
    /\ IF more /\ children[t][i].result.total_requests < MaxRequests
       THEN /\ children' = [children EXCEPT ![t][i].st = "request"]
            /\ UNCHANGED test_results
       ELSE /\ children' = [children EXCEPT ![t][i] = [NoChild EXCEPT !.st = "done"]]
            /\ test_results' = Release(t, i, CompletedResult(children[t][i].result))
    /\ last' = Step
    /\ UNCHANGED <<active_tests, tasks, stops>>

\* CancelledError is thrown into the pattern task at its await
PatternCancelled(t, i) ==
    /\ InjFrame
    /\ children[t][i].st \in {"request", "sleep"}
    /\ children[t][i].cancel
    /\ children' = [children EXCEPT ![t][i] = [NoChild EXCEPT !.st = "cancelled"]]
    /\ test_results' = Release(t, i, CancelledResult(children[t][i].result))
    /\ last' = Step
    /\ UNCHANGED <<active_tests, tasks, stops>>

(***************************************************************************)
(* stop_traffic_test(test_id)                                              *)
(***************************************************************************)
\* task.cancel(): a task that has not run is marked; a task waiting in gather
\* has its unfinished children cancelled
CancelTask(t) ==
    /\ tasks' = [tasks EXCEPT ![t].must_cancel = TRUE]
    /\ children' = [children EXCEPT ![t] =
          [i \in 1..MaxPatterns |->
             IF children[t][i].st \in {"created", "request", "sleep"}
             THEN [children[t][i] EXCEPT !.cancel = TRUE]
             ELSE children[t][i]]]

MarkedCancelled(r) == [r EXCEPT !.status = "cancelled", !.end_time = "set"]

\* after `await task`: if test_id in self.test_results, that result gets
\* status CANCELLED and an end_time; then del self.active_tests[test_id] and
\* return True (KeyError when the key is gone)
StopTail(test_id, stp) ==
    /\ IF test_id \in DOMAIN test_results
       THEN IF test_results[test_id].owner = NoOwner
            THEN /\ test_results' = [test_results EXCEPT ![test_id] =
                                        Stored(MarkedCancelled(@.value))]
                 /\ UNCHANGED children
            ELSE /\ children' = [children EXCEPT
                       ![test_results[test_id].owner[1]][test_results[test_id].owner[2]].result
                           = MarkedCancelled(@)]
                 /\ UNCHANGED test_results
       ELSE UNCHANGED <<test_results, children>>
    /\ IF test_id \in ActiveIds
       THEN /\ active_tests' = Drop(active_tests, test_id)
            /\ last' = [op |-> "stop", id |-> test_id, ret |-> "true"]
       ELSE /\ UNCHANGED active_tests
            /\ last' = [op |-> "stop", id |-> test_id, ret |-> "raised"]
    /\ stops' = stp
    /\ tasks' = Collect(tasks, active_tests', stp)

\* the call up to `await task`
StopCall(c, test_id) ==
    /\ InjFrame
    /\ stops[c] = NoStop
    /\ IF test_id \notin ActiveIds
       THEN /\ last' = [op |-> "stop", id |-> test_id, ret |-> "false"]
            /\ UNCHANGED <<active_tests, test_results, tasks, children, stops>>
       ELSE LET t == active_tests[test_id] IN
            IF Finished(tasks[t].st)
            THEN \* cancel() does nothing and `await task` does not suspend
                 StopTail(test_id, stops)
            ELSE /\ CancelTask(t)
                 /\ stops' = [stops EXCEPT ![c] = [id |-> test_id, task |-> t]]
                 /\ last' = Step
                 /\ UNCHANGED <<active_tests, test_results>>

\* the awaited task has ended: the call resumes after the try/except
StopResume(c) ==
    /\ InjFrame
    /\ stops[c] # NoStop
    /\ Finished(tasks[stops[c].task].st)
    /\ StopTail(stops[c].id, [stops EXCEPT ![c] = NoStop])

NextInj ==
    \/ Start
    \/ \E t \in TaskIds : TestTaskStart(t)
    \/ \E t \in TaskIds : TestTaskFinish(t)
    \/ \E t \in TaskIds, i \in 1..MaxPatterns : PatternStart(t, i)
    \/ \E t \in TaskIds, i \in 1..MaxPatterns, o \in ExploredOutcomes : RequestDone(t, i, o)
    \/ \E t \in TaskIds, i \in 1..MaxPatterns, more \in BOOLEAN : SleepDone(t, i, more)
    \/ \E t \in TaskIds, i \in 1..MaxPatterns : PatternCancelled(t, i)
    \/ \E c \in Callers, test_id \in TestIds : StopCall(c, test_id)
    \/ \E c \in Callers : StopResume(c)

SpecInj == InjInit /\ [][NextInj]_vars

(***************************************************************************)
(* Properties of the TrafficInjector                                       *)
(***************************************************************************)
resultVars == <<active_tests, test_results, tasks, children, stops>>

\* the keys under which the patterns of test_id store their results
KeysOf(test_id) == { PatternId(test_id, i) : i \in 0..(MaxPatterns - 1) }

Observed(key) == ResultAt(test_results, children, key)

\* C1: in every reachable state the number of active tests is at most
\* max_concurrent_tests, and a start_traffic_test call made while the number
\* of active tests is at the bound raises and registers nothing.
C1_ActiveBounded ==
    /\ [](Cardinality(DOMAIN active_tests) <= max_concurrent_tests)
    /\ [][ (last'.op = "start" /\ Cardinality(DOMAIN active_tests) >= max_concurrent_tests)
             => (last'.ret = "raised" /\ active_tests' = active_tests) ]_vars

\* a start call has just been rejected with the bound reached
C1_Witness ==
    /\ last.op = "start" /\ last.ret = "raised"
    /\ Cardinality(DOMAIN active_tests) = max_concurrent_tests

\* C2: stop_traffic_test(id) returns false and changes nothing when id is not
\* active; when id is active it returns true, never raises, and afterwards id
\* is not among the active tests.
C2_StopContract ==
    [][ last'.op = "stop" =>
          /\ (last'.id \notin DOMAIN active_tests
                => last'.ret = "false" /\ UNCHANGED resultVars)
          /\ (last'.ret # "false"
                => last'.ret = "true" /\ last'.id \notin DOMAIN active_tests') ]_vars

\* C3: once stop_traffic_test(id) has stopped an active test, every result
\* recorded under a pattern key of id has status cancelled, as get_test_status
\* reports it.
C3_StoppedResultsCancelled ==
    (last.op = "stop" /\ last.ret # "false") =>
        \A k \in KeysOf(last.id) :
            k \in DOMAIN test_results => get_test_status(k).status = "cancelled"

\* a pattern that _validate_patterns must reject
BadPattern(p) ==
    \/ p.destination_ip = ""
    \/ p.destination_port < 1
    \/ p.destination_port > 65535
    \/ p.duration_seconds <= 0
    \/ p.requests_per_second <= 0

BadLists == { ps \in PatternLists : \E i \in 1..Len(ps) : BadPattern(ps[i]) }

\* C4: a start_traffic_test call made at the concurrency bound, with an id that
\* is already active, or with a pattern that has an empty destination address,
\* a port outside 1..65535, a non-positive duration or a non-positive rate,
\* raises; a call that raises launches no task and leaves the active tests and
\* the stored results unchanged; a call that does not raise registers the id
\* as active, with a new task, and returns the id.
C4_StartContract ==
    [][ last'.op = "start" =>
          /\ ( \/ Cardinality(DOMAIN active_tests) >= max_concurrent_tests
               \/ last'.id \in DOMAIN active_tests )
               => last'.ret = "raised"
          /\ last'.ret # "raised" =>
               \A patterns \in BadLists : ~start_traffic_test(patterns, last'.id)
          /\ last'.ret = "raised" => UNCHANGED resultVars
          /\ last'.ret # "raised" =>
               /\ last'.ret = last'.id
               /\ last'.id \in DOMAIN active_tests'
               /\ tasks[active_tests'[last'.id]].st = "none"
               /\ tasks'[active_tests'[last'.id]].st = "created" ]_vars

\* a start call has just been rejected below the bound while a test is active
C4_Witness ==
    /\ last.op = "start" /\ last.ret = "raised"
    /\ DOMAIN active_tests # {}
    /\ Cardinality(DOMAIN active_tests) < max_concurrent_tests

\* C5: once the result stored under a key has a terminal status, no step
\* changes what is observed under that key.
C5_TerminalImmutable ==
    [][ \A k \in DOMAIN test_results :
          Observed(k).status \in TerminalStatuses =>
             /\ k \in DOMAIN test_results'
             /\ ResultAt(test_results', children', k) = Observed(k) ]_vars

\* C6: a stored result has no end time exactly while its status is running.
C6_EndTimeIffTerminal ==
    \A k \in DOMAIN test_results :
        (Observed(k).status = RunningStatus) <=> (Observed(k).end_time = "None")


(***************************************************************************)
(* Inference engine (/process) and deployment engine (/deploy, /destroy):  *)
(* the background thread of an accepted request                            *)
(***************************************************************************)
MaxBg == 2    \* requests accepted in one run of the services

BgIds == 1..MaxBg

Kinds == {"process", "deploy", "destroy"}
DatasetIds == {"ds1", "ds2"}
FileNames == {"d.pcap", "d.csv", "d.flow", "d.txt"}

\* file_name.endswith('.pcap') / '.csv' / '.flow'
Supported(file_name) == file_name \in {"d.pcap", "d.csv", "d.flow"}

NoBg == [pc |-> "none", kind |-> "", dataset_id |-> "", file_name |-> "",
         topic_bound |-> FALSE, result_ok |-> FALSE]

Ended(pc) == pc \in {"returned", "died"}

\* the message an engine publishes, with its dataset_id attribute
Message(dataset_id, status) == [dataset_id |-> dataset_id, status |-> status]

\* the status of the message published at the end of the try block
FinalStatus(b) ==
    IF b.kind = "process" THEN "complete"
    ELSE IF b.kind = "deploy" THEN (IF b.result_ok THEN "complete" ELSE "failed")
    ELSE (IF b.result_ok THEN "destroyed" ELSE "destroy_failed")

PubFrame == UNCHANGED <<injVars, tfVars, aggVars, runVars, extVars>>

PubInit ==
    /\ env_cfg \in [output_bucket : BOOLEAN, topic : BOOLEAN]
    /\ bg = [t \in BgIds |-> NoBg]
    /\ published = [t \in BgIds |-> << >>]
    /\ InjIdle /\ TfIdle /\ AggIdle /\ RunIdle /\ ExtIdle

\* the handler answers 202 and starts the thread.  The deploy and destroy
\* threads read PUBSUB_TOPIC_COMPLETE before their try block, the process
\* thread at the end of it.
Accept(t, kind, dataset_id, file_name) ==
    /\ bg[t].pc = "none"
    /\ kind # "process" => file_name = "d.pcap"
    /\ bg' = [bg EXCEPT ![t] =
                 [pc |-> IF kind = "destroy" THEN "download" ELSE "check_bucket",
                  kind |-> kind, dataset_id |-> dataset_id, file_name |-> file_name,
                  topic_bound |-> kind = "destroy", result_ok |-> FALSE]]
    /\ UNCHANGED <<env_cfg, published>>
    /\ PubFrame

\* `if not output_bucket_name: return` of the process and deploy threads
CheckBucket(t) ==
    /\ bg[t].pc = "check_bucket"
    /\ bg' = [bg EXCEPT ![t].pc = IF env_cfg.output_bucket THEN "download" ELSE "returned",
                        ![t].topic_bound = env_cfg.output_bucket /\ bg[t].kind = "deploy"]
    /\ UNCHANGED <<env_cfg, published>>
    /\ PubFrame

\* the downloads from the bucket; the destroy thread, which does not test
\* OUTPUT_BUCKET, fails here when it is not set
Download(t, ok) ==
    /\ bg[t].pc = "download"
    /\ (bg[t].kind = "destroy" /\ ~env_cfg.output_bucket) => ~ok
    /\ bg' = [bg EXCEPT ![t].pc =
                 IF ~ok THEN "except"
                 ELSE IF bg[t].kind = "process" THEN "file_type"
                 ELSE IF bg[t].kind = "deploy" THEN "infra"
                 ELSE "infra_init"]
    /\ UNCHANGED <<env_cfg, published>>
    /\ PubFrame

\* the process thread's dispatch on the file extension: `else: return`
FileType(t) ==
    /\ bg[t].pc = "file_type"
    /\ bg' = [bg EXCEPT ![t].pc = IF Supported(bg[t].file_name) THEN "analysis" ELSE "returned"]
    /\ UNCHANGED <<env_cfg, published>>
    /\ PubFrame

\* the processors, analyzers and the Terraform generator of the process thread
Analysis(t, ok) ==
    /\ bg[t].pc = "analysis"
    /\ bg' = [bg EXCEPT ![t].pc = IF ok THEN "upload" ELSE "except"]
    /\ UNCHANGED <<env_cfg, published>>
    /\ PubFrame

\* `terraform init` and `workspace select` of the destroy thread, check=True
InfraInit(t, ok) ==
    /\ bg[t].pc = "infra_init"
    /\ bg' = [bg EXCEPT ![t].pc = IF ok THEN "infra" ELSE "except"]
    /\ UNCHANGED <<env_cfg, published>>
    /\ PubFrame

\* apply_terraform (it catches its errors into result["success"]) and
\* `terraform destroy` (its return code is tested)
Infra(t, ok) ==
    /\ bg[t].pc = "infra"
    /\ bg' = [bg EXCEPT ![t].pc = IF bg[t].kind = "deploy" THEN "upload" ELSE "publish",
                        ![t].result_ok = ok]
    /\ UNCHANGED <<env_cfg, published>>
    /\ PubFrame

\* the uploads of the results
Upload(t, ok) ==
    /\ bg[t].pc = "upload"
    /\ bg' = [bg EXCEPT ![t].pc = IF ok THEN "publish" ELSE "except"]
    /\ UNCHANGED <<env_cfg, published>>
    /\ PubFrame

\* the end of the try block: `if pubsub_topic: publisher.publish(...)`
Publish(t) ==
    /\ bg[t].pc = "publish"
    /\ bg' = [bg EXCEPT ![t].pc = "returned", ![t].topic_bound = TRUE]
    /\ published' = IF env_cfg.topic
                    THEN [published EXCEPT ![t] =
                             Append(@, Message(bg[t].dataset_id, FinalStatus(bg[t])))]
                    ELSE published
    /\ UNCHANGED env_cfg
    /\ PubFrame

\* `except Exception as e: if pubsub_topic: publisher.publish(...)`.  Reading
\* pubsub_topic before it was assigned raises UnboundLocalError out of the
\* handler and the thread dies.
HandleError(t) ==
    /\ bg[t].pc = "except"
    /\ bg' = [bg EXCEPT ![t].pc = IF bg[t].topic_bound THEN "returned" ELSE "died"]
    /\ published' = IF bg[t].topic_bound /\ env_cfg.topic
                    THEN [published EXCEPT ![t] =
                             Append(@, Message(bg[t].dataset_id, "error"))]
                    ELSE published
    /\ UNCHANGED env_cfg
    /\ PubFrame

NextPub ==
    \/ \E t \in BgIds, kind \in Kinds, dataset_id \in DatasetIds, file_name \in FileNames :
          Accept(t, kind, dataset_id, file_name)
    \/ \E t \in BgIds : CheckBucket(t)
    \/ \E t \in BgIds, ok \in BOOLEAN : Download(t, ok)
    \/ \E t \in BgIds : FileType(t)
    \/ \E t \in BgIds, ok \in BOOLEAN : Analysis(t, ok)
    \/ \E t \in BgIds, ok \in BOOLEAN : InfraInit(t, ok)
    \/ \E t \in BgIds, ok \in BOOLEAN : Infra(t, ok)
    \/ \E t \in BgIds, ok \in BOOLEAN : Upload(t, ok)
    \/ \E t \in BgIds : Publish(t)
    \/ \E t \in BgIds : HandleError(t)

SpecPub == PubInit /\ [][NextPub]_vars

(***************************************************************************)
(* Properties of the background threads                                    *)
(***************************************************************************)
\* C7: when the completion topic is configured, every background thread that
\* has ended has published exactly one message, and the message carries the
\* dataset id of its request.
C7_OneCompletionMessage ==
    \A t \in BgIds :
        (env_cfg.topic /\ Ended(bg[t].pc)) =>
            /\ Len(published[t]) = 1
            /\ published[t][1].dataset_id = bg[t].dataset_id

(***************************************************************************)
(* The /api/terraform/* endpoints: one thread per request                  *)
(***************************************************************************)
MaxTfRequests == 2   \* request threads in the server at the same time

TfRequestIds == 1..MaxTfRequests

Endpoints == {"init", "validate", "plan", "apply", "destroy", "status"}

\* the temp_dir a client sends: none, or a directory an earlier init returned
TempDirs == {"", "tf1", "tf2"}

NoTfRequest == [st |-> "none", endpoint |-> "", dir |-> "", queue |-> << >>, running |-> "none"]

\* the terraform subcommands an endpoint runs through TerraformManager, in order
Commands(endpoint) ==
    IF endpoint = "init" THEN <<"init">>
    ELSE IF endpoint = "validate" THEN <<"validate">>
    ELSE IF endpoint = "plan" THEN <<"plan", "show">>
    ELSE IF endpoint = "apply" THEN <<"apply", "output">>
    ELSE IF endpoint = "destroy" THEN <<"destroy">>
    ELSE <<"output">>

\* tempfile.mkdtemp() of terraform_init: a directory no other request has
FreshDir(r) == "tmp" \o ToString(r)

\* the commands whose failure makes the handler return at once
StopsOnFailure(command) == command \in {"init", "apply"}

TfFrame == UNCHANGED <<injVars, pubVars, aggVars, runVars, extVars>>

TfInit ==
    /\ tf_requests = [r \in TfRequestIds |-> NoTfRequest]
    /\ InjIdle /\ PubIdle /\ AggIdle /\ RunIdle /\ ExtIdle

\* a handler up to its first subprocess: it settles the working directory
\* (terraform_init makes a new one when the client names none) and nothing
\* in it waits for another request
TfReceive(r, endpoint, temp_dir) ==
    /\ tf_requests[r].st = "none"
    /\ LET fresh == endpoint = "init" \/ temp_dir = ""
           dir == IF fresh THEN FreshDir(r) ELSE temp_dir
           queue == IF endpoint = "init" THEN <<"init">>
                    ELSE IF temp_dir = ""
                         THEN IF endpoint = "status" THEN << >>
                              ELSE <<"init">> \o Commands(endpoint)
                         ELSE Commands(endpoint)
       IN  tf_requests' = [tf_requests EXCEPT ![r] =
               [st |-> "handling", endpoint |-> endpoint, dir |-> dir,
                queue |-> queue, running |-> "none"]]
    /\ TfFrame

\* _run_terraform_command: subprocess.run(cmd, cwd=self.terraform_dir) starts
TfCommandStart(r) ==
    /\ tf_requests[r].st = "handling"
    /\ tf_requests[r].running = "none"
    /\ tf_requests[r].queue # << >>
    /\ tf_requests' = [tf_requests EXCEPT ![r].running = Head(tf_requests[r].queue),
                                          ![r].queue = Tail(tf_requests[r].queue)]
    /\ TfFrame

\* the subprocess ends with return code 0 (ok) or not
TfCommandEnd(r, ok) ==
    /\ tf_requests[r].running # "none"
    /\ tf_requests' = [tf_requests EXCEPT
           ![r].running = "none",
           ![r].queue = IF ~ok /\ StopsOnFailure(tf_requests[r].running)
                        THEN << >> ELSE @]
    /\ TfFrame

\* the handler returns its response
TfRespond(r) ==
    /\ tf_requests[r].st = "handling"
    /\ tf_requests[r].running = "none"
    /\ tf_requests[r].queue = << >>
    /\ tf_requests' = [tf_requests EXCEPT ![r] = NoTfRequest]
    /\ TfFrame

NextTf ==
    \/ \E r \in TfRequestIds, endpoint \in Endpoints, temp_dir \in TempDirs :
          TfReceive(r, endpoint, temp_dir)
    \/ \E r \in TfRequestIds : TfCommandStart(r)
    \/ \E r \in TfRequestIds, ok \in BOOLEAN : TfCommandEnd(r, ok)
    \/ \E r \in TfRequestIds : TfRespond(r)

SpecTf == TfInit /\ [][NextTf]_vars

(***************************************************************************)
(* Properties of the Terraform endpoints                                   *)
(***************************************************************************)
\* C8: no two requests have a terraform subprocess running in the same
\* working directory at the same time.
C8_NoOverlapInDirectory ==
    \A r1 \in TfRequestIds, r2 \in TfRequestIds :
        (r1 # r2 /\ tf_requests[r1].running # "none" /\ tf_requests[r2].running # "none")
            => tf_requests[r1].dir # tf_requests[r2].dir

(***************************************************************************)
(* Storage-mode /api/analyze: one orchestrator for all the objects         *)
(***************************************************************************)
MaxBlobs == 2    \* objects one request names
MaxRows == 2     \* data rows in one object

\* the addresses ipaddress.ip_address accepts
Hosts == {"10.0.0.1", "10.0.0.2"}

\* a port cell of a row: the column or the cell is missing, an integer, or
\* text that int() rejects
PortCells == {"absent", "80", "502", "http"}

\* int(cell.strip()) where it succeeds
int(cell) == IF cell = "80" THEN 80 ELSE 502

IsInteger(cell) == cell \in {"80", "502"}

\* a row of the file read by csv.reader: short rows end before the address
\* columns; proto "absent" stands for a missing protocol column or cell
Row(src, dst, proto, sport, dport, short) ==
    [src |-> src, dst |-> dst, proto |-> proto, sport |-> sport, dport |-> dport,
     short |-> short]

\* the data rows of the objects; the last one has no valid source address
RowInputs ==
    { Row("10.0.0.1", "10.0.0.2", "TCP", "absent", "absent", FALSE),
      Row("10.0.0.1", "10.0.0.2", "UDP", "absent", "absent", FALSE),
      Row("10.0.0.2", "10.0.0.1", "TCP", "absent", "absent", FALSE),
      Row("bad", "10.0.0.2", "TCP", "absent", "absent", FALSE) }

Files == UNION { [1..n -> RowInputs] : n \in 0..MaxRows }

\* NetworkData(): empty sets and defaultdicts
EmptyNetworkData ==
    [hosts |-> {}, connections |-> << >>, host_ports |-> << >>, protocols |-> << >>]

\* d[k] += n on a defaultdict(int), and the `if k in d ... else` of the endpoint
AddCount(d, k, n) ==
    IF k \in DOMAIN d THEN [d EXCEPT ![k] = @ + n] ELSE d @@ (k :> n)

\* NetworkData.add_host, add_connection, add_protocol, add_port
add_host(nd, ip) == [nd EXCEPT !.hosts = @ \cup {ip}]

add_connection(nd, src_ip, dst_ip) ==
    [nd EXCEPT !.connections = AddCount(@, <<src_ip, dst_ip>>, 1)]

add_protocol(nd, proto) == [nd EXCEPT !.protocols = AddCount(@, proto, 1)]

add_port(nd, ip, port, direction, proto) ==
    [nd EXCEPT !.host_ports =
        IF ip \in DOMAIN @ THEN [@ EXCEPT ![ip] = @ \cup {<<port, direction, proto>>}]
        ELSE @ @@ (ip :> {<<port, direction, proto>>})]

\* the parser's test of a row: it is long enough and both addresses parse
ValidRow(row) == ~row.short /\ row.src \in Hosts /\ row.dst \in Hosts

\* the protocol label of a row: the cell, or UNKNOWN without one
RowProtocol(row) == IF row.proto = "absent" THEN "UNKNOWN" ELSE row.proto

\* a port column whose cell is recorded whenever it is there
AddRowPortUnchecked(nd, ip, cell, direction, proto) ==
    IF cell # "absent" THEN add_port(nd, ip, int(cell), direction, proto) ELSE nd

\* a port column of a valid row: recorded when the cell is there and is an integer
AddRowPort(nd, ip, cell, direction, proto) ==
    IF cell # "absent" /\ IsInteger(cell) THEN add_port(nd, ip, int(cell), direction, proto)
    ELSE nd

\* add_host, add_connection, add_protocol and the add_port calls for one valid row
AddRow(nd, row) ==
    LET proto == RowProtocol(row)
        n1 == add_host(add_host(nd, row.src), row.dst)
        n2 == add_protocol(add_connection(n1, row.src, row.dst), proto)
        n3 == AddRowPort(n2, row.src, row.sport, "src", proto)
    IN  AddRowPort(n3, row.dst, row.dport, "dst", proto)

\* the parser's loop over the rows from position i on: invalid rows are skipped
RECURSIVE ParseRows(_, _, _)
ParseRows(file, i, nd) ==
    IF i > Len(file) THEN nd
    ELSE ParseRows(file, i + 1, IF ValidRow(file[i]) THEN AddRow(nd, file[i]) ELSE nd)

\* parse(file_path, network_data): fills the NetworkData it is given and
\* reports failure when the file has no valid row
parse(file, nd) ==
    [ok |-> \E i \in 1..Len(file) : ValidRow(file[i]),
     data |-> ParseRows(file, 1, nd)]

\* the key with the two addresses exchanged
ConnKeyReversed(pair) == pair[2] \o "->" \o pair[1]

\* f"{src}->{dst}"
ConnKey(pair) == pair[1] \o "->" \o pair[2]

\* the endpoint's loops that add one dictionary of counts to the aggregate
RECURSIVE AddAll(_, _, _)
AddAll(agg, d, keys) ==
    IF keys = {} THEN agg
    ELSE LET k == CHOOSE x \in keys : TRUE
         IN  AddAll(AddCount(agg, k, d[k]), d, keys \ {k})

RECURSIVE AddAllConnections(_, _, _)
AddAllConnections(agg, d, keys) ==
    IF keys = {} THEN agg
    ELSE LET k == CHOOSE x \in keys : TRUE
         IN  AddAllConnections(AddCount(agg, ConnKey(k), d[k]), d, keys \ {k})

\* "Aggrega i risultati dall'analizzatore": hosts, protocols, connections
Aggregate(rd, nd) ==
    [hosts |-> rd.hosts \cup nd.hosts,
     connections |-> AddAllConnections(rd.connections, nd.connections, DOMAIN nd.connections),
     protocols |-> AddAll(rd.protocols, nd.protocols, DOMAIN nd.protocols)]

AggFrame == UNCHANGED <<injVars, pubVars, tfVars, runVars, extVars>>

\* the state when the loop over blob_names starts: a new orchestrator, an
\* empty aggregate
AggInit ==
    /\ storage \in UNION { [1..n -> Files] : n \in 1..MaxBlobs }
    /\ next_blob = 1
    /\ network_data = EmptyNetworkData
    /\ result_data = EmptyNetworkData
    /\ succeeded = {}
    /\ response = 0
    /\ InjIdle /\ PubIdle /\ TfIdle /\ RunIdle /\ ExtIdle

\* one iteration of `for blob_name in blob_names`.  downloaded: the download
\* did not raise; later_ok: the enrichment and the generators of
\* orchestrator.run succeeded.  The parser is handed the NetworkData the
\* orchestrator's analyzer was constructed with.
AnalyzeBlob(downloaded, later_ok) ==
    /\ response = 0
    /\ next_blob <= Len(storage)
    /\ next_blob' = next_blob + 1
    /\ IF ~downloaded
       THEN UNCHANGED <<network_data, result_data, succeeded>>
       ELSE LET parsed == parse(storage[next_blob], network_data)
            IN  /\ network_data' = parsed.data
                /\ IF parsed.ok /\ later_ok
                   THEN /\ succeeded' = succeeded \cup {next_blob}
                        /\ result_data' = Aggregate(result_data, parsed.data)
                   ELSE UNCHANGED <<result_data, succeeded>>
    /\ UNCHANGED <<storage, response>>
    /\ AggFrame

\* after the loop: 500 when nothing was aggregated or an upload raised,
\* otherwise 200 with the aggregate
Respond(uploaded) ==
    /\ response = 0
    /\ next_blob > Len(storage)
    /\ response' = IF result_data.hosts = {} /\ DOMAIN result_data.connections = {}
                   THEN 500
                   ELSE IF uploaded THEN 200 ELSE 500
    /\ UNCHANGED <<storage, next_blob, network_data, result_data, succeeded>>
    /\ AggFrame

NextAgg ==
    \/ \E downloaded \in BOOLEAN, later_ok \in BOOLEAN : AnalyzeBlob(downloaded, later_ok)
    \/ \E uploaded \in BOOLEAN : Respond(uploaded)

SpecAgg == AggInit /\ [][NextAgg]_vars

(***************************************************************************)
(* Properties of the aggregation                                           *)
(***************************************************************************)
\* what one object alone contributes
OwnConnections(file, src, dst) ==
    Cardinality({ i \in 1..Len(file) :
                    ValidRow(file[i]) /\ file[i].src = src /\ file[i].dst = dst })

OwnProtocol(file, proto) ==
    Cardinality({ i \in 1..Len(file) : ValidRow(file[i]) /\ file[i].proto = proto })

RECURSIVE SumConnections(_, _, _)
SumConnections(b, src, dst) ==
    IF b = 0 THEN 0
    ELSE SumConnections(b - 1, src, dst)
         + (IF b \in succeeded THEN OwnConnections(storage[b], src, dst) ELSE 0)

RECURSIVE SumProtocol(_, _)
SumProtocol(b, proto) ==
    IF b = 0 THEN 0
    ELSE SumProtocol(b - 1, proto)
         + (IF b \in succeeded THEN OwnProtocol(storage[b], proto) ELSE 0)

Reported(d, k) == IF k \in DOMAIN d THEN d[k] ELSE 0

Protocols == { row.proto : row \in RowInputs }

\* C9: in the aggregate a storage-mode request answers with, the count of
\* every (source, destination) pair is the sum, over the objects whose
\* analysis succeeded, of the rows of that object alone for the pair, and the
\* count of every protocol label is the like sum.
C9_AggregateCountsOnce ==
    response = 200 =>
        /\ \A src \in Hosts, dst \in Hosts :
              Reported(result_data.connections, ConnKey(<<src, dst>>))
                 = SumConnections(Len(storage), src, dst)
        /\ \A proto \in Protocols :
              Reported(result_data.protocols, proto) = SumProtocol(Len(storage), proto)

(***************************************************************************)
(* AnalysisOrchestrator.run                                                *)
(***************************************************************************)
\* the file_type arguments and the input file extensions of the calls
FileTypes == {"None", "auto", "pcap", "csv", "netflow", "json"}
Extensions == {".pcap", ".csv", ".nflow", ".txt"}
\* an output path argument: not given, empty, or a path
Paths == {"None", "", "out"}

Generators == {"graph", "analysis", "terraform"}

\* _detect_file_type: by extension, anything unknown is taken for CSV
detect_file_type(ext) ==
    IF ext \in {".pcap", ".pcapng"} THEN "pcap"
    ELSE IF ext = ".csv" THEN "csv"
    ELSE IF ext \in {".nflow", ".nfcapd"} THEN "netflow"
    ELSE "csv"

\* the file type run dispatches on
EffectiveType(args) ==
    IF args.file_type = "None" \/ args.file_type = "auto"
    THEN detect_file_type(args.ext)
    ELSE args.file_type

\* `if output_graph:`, the truth value of a path argument
Truthy(path) == path # "None" /\ path # ""

\* an accumulation that forgets the earlier generators
Overwrite(success, ok) == ok

\* `success &= ...`
Accumulate(success, ok) == success /\ ok

Invoked(name, ok) == [call |-> name, ok |-> ok]

RunFrame == UNCHANGED <<injVars, pubVars, tfVars, aggVars, extVars>>

RunInit ==
    /\ run_args \in [file_type : FileTypes, ext : Extensions,
                     graph : Paths, analysis : Paths, terraform : Paths]
    /\ run_pc = "analysis"
    /\ run_success = FALSE
    /\ run_trace = << >>
    /\ run_ret = "None"
    /\ InjIdle /\ PubIdle /\ TfIdle /\ AggIdle /\ ExtIdle

\* `return False` of run
ReturnFalse ==
    /\ run_pc' = "returned"
    /\ run_ret' = "false"

\* FASE 1: _run_analysis_phase and run's test of its result.  A file type
\* that is none of pcap, csv, netflow invokes no parser and fails.
RunAnalysisPhase(ok) ==
    /\ run_pc = "analysis"
    /\ LET ty == EffectiveType(run_args)
           known == ty \in {"pcap", "csv", "netflow"}
           success == known /\ ok
       IN  /\ run_trace' = IF known THEN Append(run_trace, Invoked("parser", ok))
                           ELSE run_trace
           /\ run_success' = success
           /\ IF success THEN run_pc' = "enrichment" /\ run_ret' = run_ret
              ELSE ReturnFalse
    /\ UNCHANGED run_args
    /\ RunFrame

\* FASE 2: _run_enrichment_phase and run's test of its result
RunEnrichmentPhase(ok) ==
    /\ run_pc = "enrichment"
    /\ run_trace' = Append(run_trace, Invoked("enrichment", ok))
    /\ run_success' = ok
    /\ IF ok THEN run_pc' = "graph" /\ run_ret' = run_ret
       ELSE ReturnFalse
    /\ UNCHANGED run_args
    /\ RunFrame

\* FASE 3, _run_output_generation_phase: `success = True`, then one
\* `if output_x: success &= self._generate_x(...)` for each output
GenerateGraph(ok) ==
    /\ run_pc = "graph"
    /\ IF Truthy(run_args.graph)
       THEN /\ run_trace' = Append(run_trace, Invoked("graph", ok))
            /\ run_success' = Accumulate(TRUE, ok)
       ELSE /\ run_trace' = run_trace
            /\ run_success' = TRUE
    /\ run_pc' = "analysis_output"
    /\ UNCHANGED <<run_args, run_ret>>
    /\ RunFrame

GenerateAnalysis(ok) ==
    /\ run_pc = "analysis_output"
    /\ IF Truthy(run_args.analysis)
       THEN /\ run_trace' = Append(run_trace, Invoked("analysis", ok))
            /\ run_success' = Accumulate(run_success, ok)
       ELSE UNCHANGED <<run_trace, run_success>>
    /\ run_pc' = "terraform"
    /\ UNCHANGED <<run_args, run_ret>>
    /\ RunFrame

GenerateTerraform(ok) ==
    /\ run_pc = "terraform"
    /\ IF Truthy(run_args.terraform)
       THEN /\ run_trace' = Append(run_trace, Invoked("terraform", ok))
            /\ run_success' = Accumulate(run_success, ok)
       ELSE UNCHANGED <<run_trace, run_success>>
    /\ run_pc' = "return"
    /\ UNCHANGED <<run_args, run_ret>>
    /\ RunFrame

\* `return success`
RunReturn ==
    /\ run_pc = "return"
    /\ run_pc' = "returned"
    /\ run_ret' = IF run_success THEN "true" ELSE "false"
    /\ UNCHANGED <<run_args, run_success, run_trace>>
    /\ RunFrame

NextRun ==
    \/ \E ok \in BOOLEAN : RunAnalysisPhase(ok)
    \/ \E ok \in BOOLEAN : RunEnrichmentPhase(ok)
    \/ \E ok \in BOOLEAN : GenerateGraph(ok)
    \/ \E ok \in BOOLEAN : GenerateAnalysis(ok)
    \/ \E ok \in BOOLEAN : GenerateTerraform(ok)
    \/ RunReturn

SpecRun == RunInit /\ [][NextRun]_vars

(***************************************************************************)
(* Properties of AnalysisOrchestrator.run                                  *)
(***************************************************************************)
\* the phase an invocation belongs to
PhaseOf(name) ==
    IF name = "parser" THEN 1 ELSE IF name = "enrichment" THEN 2 ELSE 3

TraceCount(name) == Cardinality({ i \in 1..Len(run_trace) : run_trace[i].call = name })

Failed(name) == \E i \in 1..Len(run_trace) : run_trace[i].call = name /\ ~run_trace[i].ok

HasPath(g) == run_args[g] \notin {"None", ""}

\* C10: what run invokes is in the order analysis, enrichment, output
\* generation; once run has returned: if the parser or the enrichment failed
\* it returned false and no generator was invoked; otherwise every output
\* with a path was invoked exactly once, every output without a path was not
\* invoked, and run returned true exactly when no invoked generator failed.
C10_RunPhases ==
    /\ \A i, j \in 1..Len(run_trace) :
          i < j => PhaseOf(run_trace[i].call) <= PhaseOf(run_trace[j].call)
    /\ TraceCount("parser") <= 1 /\ TraceCount("enrichment") <= 1
    /\ run_pc = "returned" =>
          IF TraceCount("parser") = 0 \/ Failed("parser") \/ Failed("enrichment")
          THEN /\ run_ret = "false"
               /\ \A g \in Generators : TraceCount(g) = 0
          ELSE /\ TraceCount("enrichment") = 1
               /\ \A g \in Generators : TraceCount(g) = IF HasPath(g) THEN 1 ELSE 0
               /\ (run_ret = "true") <=> (\A g \in Generators : ~Failed(g))
               /\ run_ret \in {"true", "false"}

\* run has returned after the graph generator failed and the Terraform
\* generator, invoked after it, succeeded
C10_Witness ==
    /\ run_pc = "returned"
    /\ Failed("graph")
    /\ \E i \in 1..Len(run_trace) : run_trace[i] = Invoked("terraform", TRUE)
    /\ ~HasPath("analysis")
    /\ run_ret = "false"

(***************************************************************************)
(* PerformanceConfig.get_config and AdaptiveGraphRenderer.render_graph     *)
(***************************************************************************)
\* the graphs and input files of the calls; file sizes are in hundredths of a
\* megabyte, the precision _get_file_size_mb rounds to
NodeCounts == {80, 100, 101, 500, 501, 2000, 2001}
EdgeCounts == {150, 200, 201, 1000, 1001, 5000, 5001}
FileSizes == {500, 10000, 10001, 15000}

\* a classification whose first threshold excludes its bound
CategoryExclusive(node_count, edge_count, file_size) ==
    LET category == IF node_count < 100 /\ edge_count < 200 THEN "small"
                    ELSE IF node_count <= 500 /\ edge_count <= 1000 THEN "medium"
                    ELSE IF node_count <= 2000 /\ edge_count <= 5000 THEN "large"
                    ELSE "huge"
    IN  IF file_size > 10000
        THEN IF category \in {"small", "medium"} THEN "large"
             ELSE IF category = "large" THEN "huge" ELSE category
        ELSE category

\* get_config: the thresholds, then the adjustment for files over 100 MB
Category(node_count, edge_count, file_size) ==
    LET category == IF node_count <= 100 /\ edge_count <= 200 THEN "small"
                    ELSE IF node_count <= 500 /\ edge_count <= 1000 THEN "medium"
                    ELSE IF node_count <= 2000 /\ edge_count <= 5000 THEN "large"
                    ELSE "huge"
    IN  IF file_size > 10000
        THEN IF category \in {"small", "medium"} THEN "large"
             ELSE IF category = "large" THEN "huge" ELSE category
        ELSE category

\* configs[category]["renderer"]
configs(category) ==
    IF category = "small" THEN "graphviz_detailed"
    ELSE IF category = "medium" THEN "graphviz_optimized"
    ELSE IF category = "large" THEN "mermaid"
    ELSE "summary_only"

get_config(node_count, edge_count, file_size) ==
    LET category == Category(node_count, edge_count, file_size)
    IN  [renderer |-> configs(category), category |-> category]

\* self.renderers: strategy name -> renderer class
renderers(renderer_type) ==
    IF renderer_type \in {"graphviz_detailed", "graphviz_optimized"}
    THEN "OptimizedGraphvizRenderer"
    ELSE IF renderer_type = "mermaid" THEN "MermaidRenderer"
    ELSE "SummaryRenderer"

\* a fallback order that starts with the heaviest strategy
fallback_order_heavy_first == <<"graphviz_optimized", "mermaid", "summary_only">>

fallback_order == <<"summary_only", "mermaid", "graphviz_optimized">>

\* what can happen inside a renderer's render
RenderOutcomes == {"output", "nothing", "raises"}

\* render of a renderer class: the file it wrote, or None; an exception raised
\* inside is caught by render itself and gives None
render(renderer_type, outcome) ==
    IF outcome = "output" THEN renderers(renderer_type) \o ":" \o renderer_type
    ELSE "None"

Attempt(renderer_type, outcome) == [renderer |-> renderer_type, outcome |-> outcome]

RenderFrame == UNCHANGED <<baseVars, cleanVars, dataVars, rolesVars, genVars, outputsVars, outgenVars, handlersVars, patternsVars, bundleVars, moveVars, detectVars, equivVars, subnetsVars>>

RenderInit ==
    /\ gr_input \in [nodes : NodeCounts, edges : EdgeCounts, size : FileSizes]
    /\ gr_config = get_config(gr_input.nodes, gr_input.edges, gr_input.size)
    /\ gr_pc = "primary"
    /\ gr_index = 1
    /\ gr_attempts = << >>
    /\ gr_result = "None"
    /\ BaseIdle /\ CleanIdle /\ DataIdle /\ RolesIdle /\ GenIdle /\ OutputsIdle /\ OutgenIdle /\ HandlersIdle /\ PatternsIdle /\ BundleIdle /\ MoveIdle /\ DetectIdle /\ EquivIdle /\ SubnetsIdle

\* render_graph: the renderer of the configuration, and the test of its result
RenderPrimary(outcome) ==
    /\ gr_pc = "primary"
    /\ gr_attempts' = Append(gr_attempts, Attempt(gr_config.renderer, outcome))
    /\ gr_result' = render(gr_config.renderer, outcome)
    /\ gr_pc' = IF gr_result' # "None" THEN "return" ELSE "fallback"
    /\ UNCHANGED <<gr_input, gr_config, gr_index>>
    /\ RenderFrame

\* _try_fallback_renderer: one iteration of `for renderer_type in fallback_order`
FallbackStep(outcome) ==
    /\ gr_pc = "fallback"
    /\ gr_index <= Len(fallback_order)
    /\ LET renderer_type == fallback_order[gr_index]
       IN  IF renderer_type = gr_config.renderer
           THEN /\ gr_index' = gr_index + 1
                /\ UNCHANGED <<gr_attempts, gr_result, gr_pc>>
           ELSE /\ gr_attempts' = Append(gr_attempts, Attempt(renderer_type, outcome))
                /\ IF render(renderer_type, outcome) # "None"
                   THEN /\ gr_result' = render(renderer_type, outcome)
                        /\ gr_pc' = "return"
                        /\ gr_index' = gr_index
                   ELSE /\ gr_index' = gr_index + 1
                        /\ UNCHANGED <<gr_result, gr_pc>>
    /\ UNCHANGED <<gr_input, gr_config>>
    /\ RenderFrame

\* _try_fallback_renderer: the loop is over, `return None`
FallbackExhausted ==
    /\ gr_pc = "fallback"
    /\ gr_index > Len(fallback_order)
    /\ gr_result' = "None"
    /\ gr_pc' = "return"
    /\ UNCHANGED <<gr_input, gr_config, gr_index, gr_attempts>>
    /\ RenderFrame

\* render_graph: `return result`
RenderReturn ==
    /\ gr_pc = "return"
    /\ gr_pc' = "returned"
    /\ UNCHANGED <<gr_input, gr_config, gr_index, gr_attempts, gr_result>>
    /\ RenderFrame

NextRender ==
    \/ \E outcome \in RenderOutcomes : RenderPrimary(outcome)
    \/ \E outcome \in RenderOutcomes : FallbackStep(outcome)
    \/ FallbackExhausted
    \/ RenderReturn

SpecRender == RenderInit /\ [][NextRender]_vars

(***************************************************************************)
(* Properties of the adaptive renderer                                     *)
(***************************************************************************)
\* the strategies render_graph may run after `first` failed, in order
RemainingAfter(first) ==
    SelectSeq(<<"summary_only", "mermaid", "graphviz_optimized">>,
              LAMBDA name : name # first)

AttemptFailed(i) == gr_attempts[i].outcome # "output"

ExpectedCategory(n, e, f) ==
    LET base == IF n <= 100 /\ e <= 200 THEN 1
                ELSE IF n <= 500 /\ e <= 1000 THEN 2
                ELSE IF n <= 2000 /\ e <= 5000 THEN 3
                ELSE 4
        level == IF f > 10000 THEN (IF base <= 2 THEN 3 ELSE 4) ELSE base
    IN  <<"small", "medium", "large", "huge">>[level]

ExpectedRenderer(category) ==
    [small |-> "graphviz_detailed", medium |-> "graphviz_optimized",
     large |-> "mermaid", huge |-> "summary_only"][category]

\* C18: the configuration of every call has the category the thresholds and
\* the escalation give for its node count, edge count and file size, and the
\* renderer of that category; (100, 200, 5 MB) is small, (101, 200, 5 MB) is
\* medium and (80, 150, 150 MB) is large.
C18_SizeClassification ==
    gr_pc # "idle" =>
        /\ gr_config.category = ExpectedCategory(gr_input.nodes, gr_input.edges, gr_input.size)
        /\ gr_config.renderer = ExpectedRenderer(gr_config.category)
        /\ (gr_input = [nodes |-> 100, edges |-> 200, size |-> 500])
              => gr_config.category = "small"
        /\ (gr_input = [nodes |-> 101, edges |-> 200, size |-> 500])
              => gr_config.category = "medium"
        /\ (gr_input = [nodes |-> 80, edges |-> 150, size |-> 15000])
              => gr_config.category = "large"

\* the call on a graph of 80 nodes and 150 edges from a 150 MB file has run
\* the mermaid renderer first
C18_Witness ==
    /\ gr_input = [nodes |-> 80, edges |-> 150, size |-> 15000]
    /\ Len(gr_attempts) >= 1
    /\ gr_attempts[1].renderer = "mermaid"

(***************************************************************************)
(* Temporary files: /api/analyze with uploaded files (analyzer_api.py),    *)
(* /api/analyze on stored objects (api.py) and /api/terraform/init         *)
(***************************************************************************)
MaxInputs == 3   \* input files of one request

RequestKinds == {"direct", "storage", "terraform_init"}

\* what orchestrator.run does for one input file, and the download before it
FileOutcomes == {"download_fails", "run_raises", "run_false", "run_true"}

\* the temporary local copy of the i-th input file
InputCopy(i) == "input" \o ToString(i)

\* tempfile.mkdtemp() of the storage-mode analyze, and of terraform_init
OutputDir == "output_dir"
TerraformDir == "terraform_dir"

CleanFrame == UNCHANGED <<baseVars, renderVars, dataVars, rolesVars, genVars, outputsVars, outgenVars, handlersVars, patternsVars, bundleVars, moveVars, detectVars, equivVars, subnetsVars>>

CleanInit ==
    /\ rq_kind \in RequestKinds
    /\ rq_count \in 1..MaxInputs
    /\ rq_pc = "start"
    /\ rq_index = 1
    /\ rq_outcomes = << >>
    /\ rq_status = 0
    /\ tmp_paths = {}
    /\ BaseIdle /\ RenderIdle /\ DataIdle /\ RolesIdle /\ GenIdle /\ OutputsIdle /\ OutgenIdle /\ HandlersIdle /\ PatternsIdle /\ BundleIdle /\ MoveIdle /\ DetectIdle /\ EquivIdle /\ SubnetsIdle

\* the handler returns status; `removed` is what its exit path deletes
Return(status, removed) ==
    /\ rq_status' = status
    /\ rq_pc' = "returned"
    /\ tmp_paths' = tmp_paths \ removed

\* analyzer_api.analyze: every uploaded file is saved into UPLOAD_FOLDER
DirectSave ==
    /\ rq_kind = "direct" /\ rq_pc = "start"
    /\ tmp_paths' = tmp_paths \cup { InputCopy(i) : i \in 1..rq_count }
    /\ rq_pc' = "loop"
    /\ UNCHANGED <<rq_kind, rq_count, rq_index, rq_outcomes, rq_status>>
    /\ CleanFrame

\* analyzer_api.analyze: one orchestrator.run of the loop.  A failed run
\* returns 500, an exception is answered with 500 by the handler's except;
\* the `finally` removes every uploaded file on each of these exits.
DirectRun(outcome) ==
    /\ rq_kind = "direct" /\ rq_pc = "loop"
    /\ rq_index <= rq_count
    /\ outcome # "download_fails"
    /\ rq_outcomes' = Append(rq_outcomes, outcome)
    /\ IF outcome = "run_true"
       THEN /\ rq_index' = rq_index + 1
            /\ UNCHANGED <<rq_pc, rq_status, tmp_paths>>
       ELSE /\ Return(500, { InputCopy(i) : i \in 1..rq_count })
            /\ UNCHANGED rq_index
    /\ UNCHANGED <<rq_kind, rq_count>>
    /\ CleanFrame

\* analyzer_api.analyze: the success response, and the `finally`
DirectRespond ==
    /\ rq_kind = "direct" /\ rq_pc = "loop"
    /\ rq_index > rq_count
    /\ Return(200, { InputCopy(i) : i \in 1..rq_count })
    /\ UNCHANGED <<rq_kind, rq_count, rq_index, rq_outcomes>>
    /\ CleanFrame

\* api.analyze: temp_output_dir = tempfile.mkdtemp()
StorageStart ==
    /\ rq_kind = "storage" /\ rq_pc = "start"
    /\ tmp_paths' = tmp_paths \cup {OutputDir}
    /\ rq_pc' = "loop"
    /\ UNCHANGED <<rq_kind, rq_count, rq_index, rq_outcomes, rq_status>>
    /\ CleanFrame

\* api.analyze: one iteration of the loop over blob_names.  The temporary
\* copy is written after the download and unlinked after orchestrator.run
\* has returned; an exception of run goes to the iteration's except, which
\* logs and continues.
StorageBlob(outcome) ==
    /\ rq_kind = "storage" /\ rq_pc = "loop"
    /\ rq_index <= rq_count
    /\ rq_outcomes' = Append(rq_outcomes, outcome)
    /\ rq_index' = rq_index + 1
    /\ tmp_paths' = IF outcome = "run_raises"
                    THEN tmp_paths \cup {InputCopy(rq_index)}
                    ELSE tmp_paths
    /\ UNCHANGED <<rq_kind, rq_count, rq_pc, rq_status>>
    /\ CleanFrame

\* api.analyze after the loop: 500 when nothing was aggregated or an upload
\* raised, else 200; the `finally` removes temp_output_dir
StorageRespond(uploaded) ==
    /\ rq_kind = "storage" /\ rq_pc = "loop"
    /\ rq_index > rq_count
    /\ LET usable == \E i \in 1..Len(rq_outcomes) : rq_outcomes[i] = "run_true"
       IN  Return(IF usable /\ uploaded THEN 200 ELSE 500, {OutputDir})
    /\ UNCHANGED <<rq_kind, rq_count, rq_index, rq_outcomes>>
    /\ CleanFrame

\* terraform_init: temp_terraform_dir = tempfile.mkdtemp()
InitStart ==
    /\ rq_kind = "terraform_init" /\ rq_pc = "start"
    /\ tmp_paths' = tmp_paths \cup {TerraformDir}
    /\ rq_pc' = "download"
    /\ UNCHANGED <<rq_kind, rq_count, rq_index, rq_outcomes, rq_status>>
    /\ CleanFrame

\* terraform_init: the download of the session's Terraform files.  An
\* exception removes the directory and is answered with 500; `no_files`
\* returns 404 from inside the try block.
InitDownload(outcome) ==
    /\ rq_kind = "terraform_init" /\ rq_pc = "download"
    /\ rq_outcomes' = Append(rq_outcomes, outcome)
    /\ IF outcome = "raises" THEN Return(500, {TerraformDir})
       ELSE IF outcome = "no_files" THEN Return(404, {})
       ELSE rq_pc' = "init" /\ UNCHANGED <<rq_status, tmp_paths>>
    /\ UNCHANGED <<rq_kind, rq_count, rq_index>>
    /\ CleanFrame

\* terraform_init: manager.init() and the response built from its result
InitRun(outcome) ==
    /\ rq_kind = "terraform_init" /\ rq_pc = "init"
    /\ rq_outcomes' = Append(rq_outcomes, outcome)
    /\ IF outcome = "raises" THEN Return(500, {TerraformDir})
       ELSE IF outcome = "fails" THEN Return(500, {})
       ELSE Return(200, {})
    /\ UNCHANGED <<rq_kind, rq_count, rq_index>>
    /\ CleanFrame

NextClean ==
    \/ DirectSave
    \/ \E outcome \in FileOutcomes : DirectRun(outcome)
    \/ DirectRespond
    \/ StorageStart
    \/ \E outcome \in FileOutcomes : StorageBlob(outcome)
    \/ \E uploaded \in BOOLEAN : StorageRespond(uploaded)
    \/ InitStart
    \/ \E outcome \in {"raises", "no_files", "files"} : InitDownload(outcome)
    \/ \E outcome \in {"raises", "fails", "ok"} : InitRun(outcome)

SpecClean == CleanInit /\ [][NextClean]_vars

(***************************************************************************)
(* Properties of the temporary files                                       *)
(***************************************************************************)
\* C12: when an /api/analyze handler has returned, no temporary copy of an
\* input file and no temporary output directory of the request exists; when
\* /api/terraform/init has returned an error status, the directory it made
\* does not exist.
C12_TemporariesRemoved ==
    rq_pc = "returned" =>
        /\ rq_kind \in {"direct", "storage"} => tmp_paths = {}
        /\ (rq_kind = "terraform_init" /\ rq_status >= 400) => tmp_paths = {}

(***************************************************************************)
(* The builders of a NetworkData object: CSVParser.parse and               *)
(* PCAPParser.parse over the rows and packets of a file, NetworkData's     *)
(* from_dict, the reconstruction from request JSON in the traffic API, and *)
(* direct add_host, add_connection, add_port and add_protocol calls        *)
(* followed by the round trip through to_dict and from_dict.               *)
(***************************************************************************)

MaxDataSteps == 2
MaxCalls == 3
MaxCount == 2

BuilderKinds == {"csv", "pcap", "from_dict", "traffic_api", "calls"}

\* the cells a CSV file can hold in its address column
AddressCells == Hosts \cup {"bad"}

NoRow == Row("", "", "absent", "absent", "absent", TRUE)

\* the rows of a CSV file; a short row ends before its address cells
CsvRows ==
    { Row(src, dst, proto, sport, dport, FALSE) :
        src \in AddressCells, dst \in AddressCells, proto \in {"TCP", "absent"},
        sport \in {"absent", "502", "http"}, dport \in {"absent", "80", "http"} }
    \cup {NoRow}

\* the packets of a capture: with or without an IP layer, the transport
\* layer, and its ports (0 is a port number the wire format allows)
Packets ==
    [ip : BOOLEAN, src : Hosts, dst : Hosts, transport : {"TCP", "UDP", "none"},
     sport : {0, 502}, dport : {0, 80}]

\* the body of PCAPParser.parse's loop for one packet
AddPacket(nd, packet) ==
    IF ~packet.ip THEN nd
    ELSE LET proto == IF packet.transport = "none" THEN "OTHER" ELSE packet.transport
             sport == IF packet.transport = "none" THEN 0 ELSE packet.sport
             dport == IF packet.transport = "none" THEN 0 ELSE packet.dport
             n1 == add_host(add_host(nd, packet.src), packet.dst)
             n2 == add_protocol(add_connection(n1, packet.src, packet.dst), proto)
             n3 == IF sport # 0 THEN add_port(n2, packet.src, sport, "src", proto) ELSE n2
         IN  IF dport # 0 THEN add_port(n3, packet.dst, dport, "dst", proto) ELSE n3

\* the same body when reading the transport layer raises: the hosts and the
\* connection are recorded, the protocol and the ports are not
AddPacketCut(nd, packet) ==
    IF ~packet.ip THEN nd
    ELSE add_connection(add_host(add_host(nd, packet.src), packet.dst),
                        packet.src, packet.dst)

\* conn_str.split('->') for the key of a pair of addresses
split(conn_str) ==
    CHOOSE pair \in Hosts \X Hosts : pair[1] \o "->" \o pair[2] = conn_str

\* the lists a set can become under list(): every order of its elements
Lists(S) ==
    { l \in [1..Cardinality(S) -> S] : \A x \in S : \E i \in DOMAIN l : l[i] = x }

\* NetworkData.to_dict: the host set and each port set become lists, the
\* connection keys strings
to_dict(x) ==
    [hosts |-> CHOOSE l \in Lists(x.hosts) : TRUE,
     connections |->
        [k \in { ConnKey(pair) : pair \in DOMAIN x.connections } |->
            x.connections[CHOOSE pair \in DOMAIN x.connections : ConnKey(pair) = k]],
     host_ports |->
        [ip \in DOMAIN x.host_ports |-> CHOOSE l \in Lists(x.host_ports[ip]) : TRUE],
     protocols |-> x.protocols]

\* the dictionaries from_dict is given: any of the four keys can be missing
Keys == { pair[1] \o "->" \o pair[2] : pair \in Hosts \X Hosts }

PortLists == { << >>, <<<<80, "dst", "TCP">>, <<502, "dst", "TCP">>>> }

DictInputs ==
    { [present |-> present, hosts |-> hosts, connections |-> (key :> count),
       host_ports |-> (ip :> ports), protocols |-> ("TCP" :> count)] :
        present \in SUBSET {"hosts", "connections", "host_ports", "protocols"},
        hosts \in { << >>, <<"10.0.0.1">>, <<"10.0.0.1", "10.0.0.2">> },
        key \in Keys, count \in 1..MaxCount, ip \in Hosts, ports \in PortLists }

\* NetworkData().from_dict(data_dict)
from_dict(data_dict, present) ==
    [hosts |->
        IF "hosts" \in present
        THEN { data_dict.hosts[i] : i \in DOMAIN data_dict.hosts } ELSE {},
     connections |->
        IF "connections" \in present
        THEN [pair \in { split(k) : k \in DOMAIN data_dict.connections } |->
                data_dict.connections[CHOOSE k \in DOMAIN data_dict.connections :
                                        split(k) = pair]]
        ELSE << >>,
     host_ports |->
        IF "host_ports" \in present
        THEN [ip \in { h \in DOMAIN data_dict.host_ports : data_dict.host_ports[h] # << >> }
                |-> { data_dict.host_ports[ip][i] : i \in DOMAIN data_dict.host_ports[ip] }]
        ELSE << >>,
     protocols |-> IF "protocols" \in present THEN data_dict.protocols ELSE << >>]

AllKeys == {"hosts", "connections", "host_ports", "protocols"}

\* the network_data object of a /api/traffic request body
FictitiousHost(i) == "192.168.1." \o ToString(i)

AnalysisInputs ==
    [hosts_field : {"hosts_list", "hosts", "hosts_int", "missing"},
     hosts : SUBSET Hosts, hosts_int : 0..2,
     connections_field : {"connections_details", "connections", "connections_int", "missing"},
     connections : { (key :> 1) : key \in Keys \cup {"10.0.0.1"} }, connections_int : 1..2,
     protocols : { << >>, ("TCP" :> 2) }]

\* host.endswith('.1'), '.2', '.100' decide the default port records
Suffix(host) ==
    IF host \in {"10.0.0.1", "192.168.1.1"} THEN ".1"
    ELSE IF host \in {"10.0.0.2", "192.168.1.2"} THEN ".2"
    ELSE IF host \in {"10.0.0.100", "192.168.1.100"} THEN ".100"
    ELSE ""

DefaultPorts(host) ==
    IF Suffix(host) = ".1" THEN {<<80, "dst", "TCP">>, <<443, "dst", "TCP">>}
    ELSE IF Suffix(host) = ".2" THEN {<<3306, "dst", "TCP">>}
    ELSE IF Suffix(host) = ".100" THEN {<<502, "dst", "TCP">>}
    ELSE {<<80, "dst", "TCP">>}

\* the hosts, the connections and the default port records that
\* _generate_patterns_from_analysis rebuilds; hosts_list is list(hosts), in
\* the order the set happens to have
RebuiltHosts(a) ==
    IF a.hosts_field \in {"hosts_list", "hosts"} THEN a.hosts
    ELSE IF a.hosts_field = "hosts_int" THEN { FictitiousHost(i) : i \in 1..a.hosts_int }
    ELSE {}

Min(a, b) == IF a < b THEN a ELSE b

RebuiltConnections(a, hosts_list) ==
    IF a.connections_field \in {"connections_details", "connections"}
    THEN [pair \in { split(k) : k \in DOMAIN a.connections \cap Keys } |-> 1]
    ELSE IF a.connections_field = "connections_int" /\ Len(hosts_list) >= 2
    THEN [pair \in { <<hosts_list[i], hosts_list[i + 1]>> :
                        i \in 1..Min(a.connections_int, Len(hosts_list) - 1) } |-> 1]
    ELSE << >>

Rebuild(a, hosts_list) ==
    [hosts |-> RebuiltHosts(a),
     connections |-> RebuiltConnections(a, hosts_list),
     host_ports |-> [host \in RebuiltHosts(a) |-> DefaultPorts(host)],
     protocols |-> a.protocols]

\* the arguments of the direct calls
CallPorts == {80, 502}

DataFrame == UNCHANGED <<baseVars, renderVars, cleanVars, rolesVars, genVars, outputsVars, outgenVars, handlersVars, patternsVars, bundleVars, moveVars, detectVars, equivVars, subnetsVars>>

DataInit ==
    /\ nd_kind \in BuilderKinds
    /\ nd_pc = "build"
    /\ nd_data = EmptyNetworkData
    /\ nd_steps = 0
    /\ nd_last = NoRow
    /\ nd_accepted = 0
    /\ nd_copy = EmptyNetworkData
    /\ nd_ret = "None"
    /\ BaseIdle /\ RenderIdle /\ CleanIdle /\ RolesIdle /\ GenIdle /\ OutputsIdle /\ OutgenIdle /\ HandlersIdle /\ PatternsIdle /\ BundleIdle /\ MoveIdle /\ DetectIdle /\ EquivIdle /\ SubnetsIdle

\* one iteration of CSVParser.parse's loop over the rows
CsvRow ==
    /\ nd_kind = "csv" /\ nd_pc = "build" /\ nd_steps < MaxDataSteps
    /\ \E row \in CsvRows :
        /\ nd_last' = row
        /\ nd_data' = IF ValidRow(row) THEN AddRow(nd_data, row) ELSE nd_data
        /\ nd_accepted' = IF ValidRow(row) THEN nd_accepted + 1 ELSE nd_accepted
    /\ nd_steps' = nd_steps + 1
    /\ UNCHANGED <<nd_kind, nd_pc, nd_copy, nd_ret>>
    /\ DataFrame

\* the reader raises between two rows: the outer except returns False
CsvFail ==
    /\ nd_kind = "csv" /\ nd_pc = "build"
    /\ nd_pc' = "done"
    /\ nd_ret' = "False"
    /\ UNCHANGED <<nd_kind, nd_data, nd_steps, nd_last, nd_accepted, nd_copy>>
    /\ DataFrame

\* the rows are exhausted: False when no row was accepted
CsvEnd ==
    /\ nd_kind = "csv" /\ nd_pc = "build"
    /\ nd_pc' = "done"
    /\ nd_ret' = IF nd_accepted = 0 THEN "False" ELSE "True"
    /\ UNCHANGED <<nd_kind, nd_data, nd_steps, nd_last, nd_accepted, nd_copy>>
    /\ DataFrame

\* one iteration of PCAPParser.parse's loop over the packets
PcapPacket ==
    /\ nd_kind = "pcap" /\ nd_pc = "build" /\ nd_steps < MaxDataSteps
    /\ \E packet \in Packets : nd_data' = AddPacket(nd_data, packet)
    /\ nd_steps' = nd_steps + 1
    /\ UNCHANGED <<nd_kind, nd_pc, nd_last, nd_accepted, nd_copy, nd_ret>>
    /\ DataFrame

\* rdpcap raises, or a packet's transport layer cannot be read: the except
\* returns False with what was recorded so far
PcapFail ==
    /\ nd_kind = "pcap" /\ nd_pc = "build"
    /\ \/ nd_data' = nd_data
       \/ \E packet \in Packets : nd_data' = AddPacketCut(nd_data, packet)
    /\ nd_pc' = "done"
    /\ nd_ret' = "False"
    /\ UNCHANGED <<nd_kind, nd_steps, nd_last, nd_accepted, nd_copy>>
    /\ DataFrame

PcapEnd ==
    /\ nd_kind = "pcap" /\ nd_pc = "build"
    /\ nd_pc' = "done"
    /\ nd_ret' = "True"
    /\ UNCHANGED <<nd_kind, nd_data, nd_steps, nd_last, nd_accepted, nd_copy>>
    /\ DataFrame

\* NetworkData().from_dict(d) on a dictionary
FromDict ==
    /\ nd_kind = "from_dict" /\ nd_pc = "build"
    /\ \E d \in DictInputs : nd_data' = from_dict(d, d.present)
    /\ nd_pc' = "done"
    /\ nd_ret' = "self"
    /\ UNCHANGED <<nd_kind, nd_steps, nd_last, nd_accepted, nd_copy>>
    /\ DataFrame

\* _generate_patterns_from_analysis up to the default port records
TrafficRebuild ==
    /\ nd_kind = "traffic_api" /\ nd_pc = "build"
    /\ \E a \in AnalysisInputs : \E hosts_list \in Lists(RebuiltHosts(a)) :
        nd_data' = Rebuild(a, hosts_list)
    /\ nd_pc' = "done"
    /\ nd_ret' = "patterns"
    /\ UNCHANGED <<nd_kind, nd_steps, nd_last, nd_accepted, nd_copy>>
    /\ DataFrame

\* one add_host, add_connection, add_port or add_protocol call
Call ==
    /\ nd_kind = "calls" /\ nd_pc = "build" /\ nd_steps < MaxCalls
    /\ \/ \E ip \in Hosts : nd_data' = add_host(nd_data, ip)
       \/ \E src \in Hosts, dst \in Hosts : nd_data' = add_connection(nd_data, src, dst)
       \/ \E ip \in Hosts, port \in CallPorts, direction \in {"src", "dst"} :
            nd_data' = add_port(nd_data, ip, port, direction, "TCP")
       \/ \E proto \in {"TCP", "UDP"} : nd_data' = add_protocol(nd_data, proto)
    /\ nd_steps' = nd_steps + 1
    /\ UNCHANGED <<nd_kind, nd_pc, nd_last, nd_accepted, nd_copy, nd_ret>>
    /\ DataFrame

\* NetworkData().from_dict(x.to_dict())
RoundTrip ==
    /\ nd_kind = "calls" /\ nd_pc = "build"
    /\ nd_copy' = from_dict(to_dict(nd_data), AllKeys)
    /\ nd_pc' = "loaded"
    /\ UNCHANGED <<nd_kind, nd_data, nd_steps, nd_last, nd_accepted, nd_ret>>
    /\ DataFrame

NextData ==
    \/ CsvRow \/ CsvFail \/ CsvEnd
    \/ PcapPacket \/ PcapFail \/ PcapEnd
    \/ FromDict \/ TrafficRebuild
    \/ Call \/ RoundTrip

SpecData == DataInit /\ [][NextData]_vars

\* every address of a connection and every key of host_ports is a host
HostsCover(nd) ==
    /\ \A pair \in DOMAIN nd.connections : pair[1] \in nd.hosts /\ pair[2] \in nd.hosts
    /\ DOMAIN nd.host_ports \subseteq nd.hosts

\* C13: every NetworkData a builder produces (the parsers over any rows or
\* packets, from_dict on any dictionary, the traffic API's reconstruction)
\* has every address of its connections and of its host_ports among its hosts.
C13_HostsCoverAddresses ==
    nd_kind \in {"csv", "pcap", "from_dict", "traffic_api"} => HostsCover(nd_data)

\* d[k] read from a defaultdict(int), host_ports[ip] from a defaultdict(set)
CountOf(d, k) == IF k \in DOMAIN d THEN d[k] ELSE 0

PortsOf(nd, ip) == IF ip \in DOMAIN nd.host_ports THEN nd.host_ports[ip] ELSE {}

\* C14: for a NetworkData x built by add_host, add_connection, add_port and
\* add_protocol calls, NetworkData().from_dict(x.to_dict()) has the same host
\* set, the same count for every ordered pair, the same set of port triples
\* for every host and the same count for every protocol label as x.
C14_RoundTrip ==
    nd_pc = "loaded" =>
        /\ nd_copy.hosts = nd_data.hosts
        /\ \A pair \in Hosts \X Hosts :
            CountOf(nd_copy.connections, pair) = CountOf(nd_data.connections, pair)
        /\ \A ip \in Hosts : PortsOf(nd_copy, ip) = PortsOf(nd_data, ip)
        /\ \A proto \in {"TCP", "UDP"} :
            CountOf(nd_copy.protocols, proto) = CountOf(nd_data.protocols, proto)

\* a round trip of an object with a connection counted twice and a port record
C14_Witness ==
    /\ nd_pc = "loaded"
    /\ CountOf(nd_data.connections, <<"10.0.0.1", "10.0.0.2">>) = 2
    /\ PortsOf(nd_data, "10.0.0.2") = {<<80, "dst", "TCP">>}

\* the sum of the counts of a dictionary
RECURSIVE SumCounts(_)
SumCounts(d) ==
    IF DOMAIN d = {} THEN 0
    ELSE LET k == CHOOSE x \in DOMAIN d : TRUE
         IN  d[k] + SumCounts([x \in DOMAIN d \ {k} |-> d[x]])

\* the port record a port cell stands for
PortRecord(cell, direction, proto) ==
    IF IsInteger(cell) THEN {<<int(cell), direction, proto>>} ELSE {}

\* C15: in CSVParser.parse on an empty NetworkData, a row that is too short
\* or whose source or destination is not a valid IP literal changes nothing;
\* a non-integer port value suppresses only that port record; an accepted
\* row adds exactly 1 to the count of its pair and exactly 1 to the count of
\* its protocol label; so the sum of the connection counts and the sum of
\* the protocol counts both equal the number of accepted rows.
C15_RowEffects ==
    [][(nd_kind = "csv" /\ nd_steps' = nd_steps + 1) =>
        LET row == nd_last'
            rejected == row.short \/ row.src \notin Hosts \/ row.dst \notin Hosts
            label == IF row.proto = "absent" THEN "UNKNOWN" ELSE row.proto
        IN  /\ rejected => nd_data' = nd_data /\ nd_accepted' = nd_accepted
            /\ ~rejected =>
                /\ nd_accepted' = nd_accepted + 1
                /\ nd_data'.hosts = nd_data.hosts \cup {row.src, row.dst}
                /\ \A pair \in Hosts \X Hosts :
                    CountOf(nd_data'.connections, pair) =
                        CountOf(nd_data.connections, pair)
                        + (IF pair = <<row.src, row.dst>> THEN 1 ELSE 0)
                /\ \A proto \in {"TCP", "UNKNOWN"} :
                    CountOf(nd_data'.protocols, proto) =
                        CountOf(nd_data.protocols, proto) + (IF proto = label THEN 1 ELSE 0)
                /\ \A ip \in Hosts :
                    PortsOf(nd_data', ip) =
                        PortsOf(nd_data, ip)
                        \cup (IF ip = row.src THEN PortRecord(row.sport, "src", label) ELSE {})
                        \cup (IF ip = row.dst THEN PortRecord(row.dport, "dst", label) ELSE {})
            /\ SumCounts(nd_data'.connections) = nd_accepted'
            /\ SumCounts(nd_data'.protocols) = nd_accepted']_vars

\* a rejected row followed by an accepted row whose source port is not an
\* integer and whose destination port is
C15_Witness ==
    /\ nd_kind = "csv" /\ nd_steps = 2 /\ nd_accepted = 1
    /\ ~nd_last.short /\ nd_last.src = "10.0.0.1" /\ nd_last.dst = "10.0.0.2"
    /\ nd_last.sport = "http" /\ nd_last.dport = "80"
    /\ PortsOf(nd_data, "10.0.0.1") = {}
    /\ PortsOf(nd_data, "10.0.0.2") = {<<80, "dst", nd_last.proto>>}

(***************************************************************************)
(* Role inference: NetworkAnalyzer.infer_host_roles and                    *)
(* NetworkEnricher.enrich_host_roles, the same loop over the hosts in both *)
(* classes.  A set of hosts and a set of port records are iterated in the  *)
(* order the set happens to have.                                          *)
(***************************************************************************)

MaxPortRecords == 3

Engines == {"NetworkAnalyzer", "NetworkEnricher"}

ConnectionCounts == {0, 2, 5, 12, 15, 20, 30}

PortRecords ==
    { <<502, "dst", "TCP">>, <<102, "dst", "TCP">>, <<44818, "dst", "TCP">>,
      <<80, "dst", "TCP">>, <<3306, "dst", "TCP">>, <<502, "src", "TCP">>,
      <<443, "src", "TCP">>, <<443, "src", "UDP">> }

\* the connections of two hosts: a pair that was never seen has no entry
ConnectionsOf(there, back) ==
    [pair \in { p \in {<<"10.0.0.1", "10.0.0.2">>, <<"10.0.0.2", "10.0.0.1">>} :
                    IF p[1] = "10.0.0.1" THEN there > 0 ELSE back > 0 } |->
        IF pair[1] = "10.0.0.1" THEN there ELSE back]

RoleInputs ==
    { [hosts |-> Hosts, connections |-> ConnectionsOf(there, back),
       host_ports |-> ("10.0.0.1" :> first) @@ ("10.0.0.2" :> second)] :
        there \in ConnectionCounts, back \in ConnectionCounts,
        first \in { S \in SUBSET PortRecords : Cardinality(S) <= MaxPortRecords },
        second \in { {}, {<<443, "src", "TCP">>},
                     {<<502, "dst", "TCP">>, <<102, "dst", "TCP">>} } }

\* incoming_connections[host] and outgoing_connections[host]
incoming_connections(data, host) ==
    SumCounts([pair \in { p \in DOMAIN data.connections : p[2] = host } |->
                 data.connections[pair]])

outgoing_connections(data, host) ==
    SumCounts([pair \in { p \in DOMAIN data.connections : p[1] = host } |->
                 data.connections[pair]])

\* the comparison with a factor 1 instead of 2
DominatesWeak(a, b) == a > b

\* `a > b * 2` of the server and the client test
Dominates(a, b) == a > b * 2

gateway_threshold == 10

WebPorts == {80, 443, 8080, 8443}

\* one iteration of the loop over the port records of a server: the role
\* after it, and whether the loop breaks
ServerPortStep(role, record) ==
    LET port == record[1]
    IN  IF record[2] # "dst" THEN [role |-> role, break |-> FALSE]
        ELSE IF port = 502 THEN [role |-> "PLC_MODBUS", break |-> TRUE]
        ELSE IF port = 102 THEN [role |-> "PLC_S7COMM", break |-> TRUE]
        ELSE IF port = 44818 THEN [role |-> "PLC_ETHERNET_IP", break |-> TRUE]
        ELSE IF port \in WebPorts THEN [role |-> "WEB_SERVER", break |-> FALSE]
        ELSE IF port = 53 THEN [role |-> "DNS_SERVER", break |-> FALSE]
        ELSE IF port = 25 THEN [role |-> "MAIL_SERVER", break |-> FALSE]
        ELSE IF port = 21 THEN [role |-> "FTP_SERVER", break |-> FALSE]
        ELSE IF port = 22 THEN [role |-> "SSH_SERVER", break |-> FALSE]
        ELSE IF port = 3306 THEN [role |-> "DATABASE_SERVER", break |-> FALSE]
        ELSE IF port = 1883 THEN [role |-> "MQTT_BROKER", break |-> FALSE]
        ELSE [role |-> role, break |-> FALSE]

\* one iteration of the loop over the port records of a client
ClientPortStep(role, record) ==
    IF record[2] = "src" /\ record[3] = "TCP" /\ record[1] \in WebPorts
    THEN [role |-> "WEB_CLIENT", break |-> TRUE]
    ELSE [role |-> role, break |-> FALSE]

RolesFrame == UNCHANGED <<baseVars, renderVars, cleanVars, dataVars, genVars, outputsVars, outgenVars, handlersVars, patternsVars, bundleVars, moveVars, detectVars, equivVars, subnetsVars>>

RolesInit ==
    /\ ri_engine \in Engines
    /\ ri_data \in RoleInputs
    /\ ri_pc = "next_host"
    /\ ri_host = ""
    /\ ri_ports = {}
    /\ ri_role = ""
    /\ host_roles = << >>
    /\ BaseIdle /\ RenderIdle /\ CleanIdle /\ DataIdle /\ GenIdle /\ OutputsIdle /\ OutgenIdle /\ HandlersIdle /\ PatternsIdle /\ BundleIdle /\ MoveIdle /\ DetectIdle /\ EquivIdle /\ SubnetsIdle

\* the loop over the hosts takes the next host and tests its traffic
HostStart ==
    /\ ri_pc = "next_host"
    /\ \E host \in ri_data.hosts \ DOMAIN host_roles :
        LET incoming == incoming_connections(ri_data, host)
            outgoing == outgoing_connections(ri_data, host)
        IN  /\ ri_host' = host
            /\ IF Dominates(incoming, outgoing)
               THEN /\ ri_role' = "SERVER"
                    /\ ri_pc' = "server_ports"
                    /\ ri_ports' = PortsOf(ri_data, host)
               ELSE IF Dominates(outgoing, incoming)
               THEN /\ ri_role' = "CLIENT"
                    /\ ri_pc' = "client_ports"
                    /\ ri_ports' = PortsOf(ri_data, host)
               ELSE /\ ri_role' =
                        IF /\ incoming > 0 /\ outgoing > 0
                           /\ incoming > gateway_threshold /\ outgoing > gateway_threshold
                        THEN "GATEWAY" ELSE "UNKNOWN"
                    /\ ri_pc' = "assign"
                    /\ ri_ports' = {}
    /\ UNCHANGED <<ri_engine, ri_data, host_roles>>
    /\ RolesFrame

\* one iteration of the server's loop over host_ports[host]
ServerPort ==
    /\ ri_pc = "server_ports"
    /\ \E record \in ri_ports :
        LET step == ServerPortStep(ri_role, record)
        IN  /\ ri_role' = step.role
            /\ ri_ports' = IF step.break THEN {} ELSE ri_ports \ {record}
            /\ ri_pc' = IF step.break THEN "assign" ELSE "server_ports"
    /\ UNCHANGED <<ri_engine, ri_data, ri_host, host_roles>>
    /\ RolesFrame

\* one iteration of the client's loop over host_ports[host]
ClientPort ==
    /\ ri_pc = "client_ports"
    /\ \E record \in ri_ports :
        LET step == ClientPortStep(ri_role, record)
        IN  /\ ri_role' = step.role
            /\ ri_ports' = IF step.break THEN {} ELSE ri_ports \ {record}
            /\ ri_pc' = IF step.break THEN "assign" ELSE "client_ports"
    /\ UNCHANGED <<ri_engine, ri_data, ri_host, host_roles>>
    /\ RolesFrame

\* the inner loop has visited every record
PortsExhausted ==
    /\ ri_pc \in {"server_ports", "client_ports"}
    /\ ri_ports = {}
    /\ ri_pc' = "assign"
    /\ UNCHANGED <<ri_engine, ri_data, ri_host, ri_ports, ri_role, host_roles>>
    /\ RolesFrame

\* host_roles[host] = role
AssignRole ==
    /\ ri_pc = "assign"
    /\ host_roles' = host_roles @@ (ri_host :> ri_role)
    /\ ri_pc' = "next_host"
    /\ UNCHANGED <<ri_engine, ri_data, ri_host, ri_ports, ri_role>>
    /\ RolesFrame

\* the loop over the hosts is over
InferEnd ==
    /\ ri_pc = "next_host"
    /\ DOMAIN host_roles = ri_data.hosts
    /\ ri_pc' = "done"
    /\ UNCHANGED <<ri_engine, ri_data, ri_host, ri_ports, ri_role, host_roles>>
    /\ RolesFrame

NextRoles ==
    \/ HostStart \/ ServerPort \/ ClientPort \/ PortsExhausted \/ AssignRole \/ InferEnd

SpecRoles == RolesInit /\ [][NextRoles]_vars

\* C16: a host with incoming > 2 x outgoing and a destination-direction
\* record for port 502 gets the role PLC_MODBUS, whatever other port records
\* it has and in whatever order they are iterated.
C16_ModbusPrecedence ==
    \A host \in DOMAIN host_roles :
        (/\ incoming_connections(ri_data, host) > 2 * outgoing_connections(ri_data, host)
         /\ \E record \in PortsOf(ri_data, host) : record[1] = 502 /\ record[2] = "dst")
        => host_roles[host] = "PLC_MODBUS"

ServerFamily ==
    {"SERVER", "PLC_MODBUS", "PLC_S7COMM", "PLC_ETHERNET_IP", "WEB_SERVER", "DNS_SERVER",
     "MAIL_SERVER", "FTP_SERVER", "SSH_SERVER", "DATABASE_SERVER", "MQTT_BROKER"}

\* the host has a source-direction TCP record on port 80, 443, 8080 or 8443
WebClientRecord(host) ==
    \E record \in PortsOf(ri_data, host) :
        record[1] \in {80, 443, 8080, 8443} /\ record[2] = "src" /\ record[3] = "TCP"

\* C17: role inference gives every host exactly one role, by priority:
\* incoming > 2 x outgoing gives a server-family role; otherwise
\* outgoing > 2 x incoming gives CLIENT, WEB_CLIENT exactly when the host has
\* a source-direction TCP record on port 80, 443, 8080 or 8443; otherwise
\* incoming > 10 and outgoing > 10 gives GATEWAY; otherwise UNKNOWN.
C17_RolePriority ==
    /\ ri_pc = "done" => DOMAIN host_roles = ri_data.hosts
    /\ \A host \in DOMAIN host_roles :
        LET incoming == incoming_connections(ri_data, host)
            outgoing == outgoing_connections(ri_data, host)
            role == host_roles[host]
        IN  IF incoming > 2 * outgoing THEN role \in ServerFamily
            ELSE IF outgoing > 2 * incoming
            THEN role = IF WebClientRecord(host) THEN "WEB_CLIENT" ELSE "CLIENT"
            ELSE IF incoming > 10 /\ outgoing > 10 THEN role = "GATEWAY"
            ELSE role = "UNKNOWN"

\* a host with incoming 15 and outgoing 12 is GATEWAY, whatever its port
\* records, here a source-direction TCP record on a web port
C17_Witness ==
    /\ ri_pc = "done"
    /\ incoming_connections(ri_data, "10.0.0.1") = 15
    /\ outgoing_connections(ri_data, "10.0.0.1") = 12
    /\ host_roles["10.0.0.1"] = "GATEWAY"
    /\ WebClientRecord("10.0.0.1")

(***************************************************************************)
(* TerraformGenerator.generate: the loop that writes one instance per host *)
(* and takes its machine type, tags and start-up script from the role.     *)
(***************************************************************************)

\* the roles role inference assigns
Roles == ServerFamily \cup {"CLIENT", "WEB_CLIENT", "GATEWAY", "UNKNOWN"}

\* a role name as its words between underscores
Words(role) ==
    IF role = "SERVER" THEN <<"SERVER">>
    ELSE IF role = "PLC_MODBUS" THEN <<"PLC", "MODBUS">>
    ELSE IF role = "PLC_S7COMM" THEN <<"PLC", "S7COMM">>
    ELSE IF role = "PLC_ETHERNET_IP" THEN <<"PLC", "ETHERNET", "IP">>
    ELSE IF role = "WEB_SERVER" THEN <<"WEB", "SERVER">>
    ELSE IF role = "DNS_SERVER" THEN <<"DNS", "SERVER">>
    ELSE IF role = "MAIL_SERVER" THEN <<"MAIL", "SERVER">>
    ELSE IF role = "FTP_SERVER" THEN <<"FTP", "SERVER">>
    ELSE IF role = "SSH_SERVER" THEN <<"SSH", "SERVER">>
    ELSE IF role = "DATABASE_SERVER" THEN <<"DATABASE", "SERVER">>
    ELSE IF role = "MQTT_BROKER" THEN <<"MQTT", "BROKER">>
    ELSE IF role = "WEB_CLIENT" THEN <<"WEB", "CLIENT">>
    ELSE <<role>>

\* `needle in role`: the needle's words are consecutive words of the role
Contains(role, needle) ==
    LET r == Words(role)
        n == Words(needle)
    IN  \E i \in 1..Len(r) :
            /\ i + Len(n) - 1 <= Len(r)
            /\ \A j \in 1..Len(n) : r[i + j - 1] = n[j]

\* the if / elif chain over the role
InstanceFor(role) ==
    IF Contains(role, "SERVER")
    THEN [machine_type |-> "e2-medium", tags |-> <<"ssh", "server">>, startup_script |-> ""]
    ELSE IF Contains(role, "PLC")
    THEN [machine_type |-> "e2-micro", tags |-> <<"ssh", "plc">>,
          startup_script |-> "modbus_emulator"]
    ELSE IF Contains(role, "WEB_SERVER")
    THEN [machine_type |-> "e2-micro", tags |-> <<"ssh", "web">>, startup_script |-> "http"]
    ELSE IF Contains(role, "DATABASE_SERVER")
    THEN [machine_type |-> "e2-standard-2", tags |-> <<"ssh", "database">>,
          startup_script |-> "database"]
    ELSE [machine_type |-> "e2-micro", tags |-> <<"ssh">>, startup_script |-> ""]

GenFrame == UNCHANGED <<baseVars, renderVars, cleanVars, dataVars, rolesVars, outputsVars, outgenVars, handlersVars, patternsVars, bundleVars, moveVars, detectVars, equivVars, subnetsVars>>

GenInit ==
    /\ tg_roles \in [Hosts -> Roles]
    /\ tg_pc = "instances"
    /\ tg_instances = << >>
    /\ BaseIdle /\ RenderIdle /\ CleanIdle /\ DataIdle /\ RolesIdle /\ OutputsIdle /\ OutgenIdle /\ HandlersIdle /\ PatternsIdle /\ BundleIdle /\ MoveIdle /\ DetectIdle /\ EquivIdle /\ SubnetsIdle

\* one iteration of `for host, role in host_roles.items()`
WriteInstance ==
    /\ tg_pc = "instances"
    /\ \E host \in DOMAIN tg_roles \ DOMAIN tg_instances :
        tg_instances' = tg_instances @@ (host :> InstanceFor(tg_roles[host]))
    /\ UNCHANGED <<tg_roles, tg_pc>>
    /\ GenFrame

\* the loop is over and instances.tf is closed
InstancesEnd ==
    /\ tg_pc = "instances"
    /\ DOMAIN tg_instances = DOMAIN tg_roles
    /\ tg_pc' = "written"
    /\ UNCHANGED <<tg_roles, tg_instances>>
    /\ GenFrame

NextGenerator == WriteInstance \/ InstancesEnd

SpecGenerator == GenInit /\ [][NextGenerator]_vars

HasTag(instance, tag) == \E i \in DOMAIN instance.tags : instance.tags[i] = tag

\* C19: every host's instance takes machine type and tags from its role by
\* non-exclusive rules: a role containing SERVER gives e2-medium and tag
\* server; a role containing PLC adds tag plc and the Modbus-emulator script;
\* WEB_SERVER adds tag web and the HTTP-server script; DATABASE_SERVER gives
\* e2-standard-2, tag database and the database script; any other role keeps
\* e2-micro.
C19_InstanceByRole ==
    \A host \in DOMAIN tg_instances :
        LET role == tg_roles[host]
            instance == tg_instances[host]
            server == role \in {"SERVER", "WEB_SERVER", "DNS_SERVER", "MAIL_SERVER",
                                "FTP_SERVER", "SSH_SERVER", "DATABASE_SERVER"}
            plc == role \in {"PLC_MODBUS", "PLC_S7COMM", "PLC_ETHERNET_IP"}
        IN  /\ server => HasTag(instance, "server")
            /\ (server /\ role # "DATABASE_SERVER") => instance.machine_type = "e2-medium"
            /\ plc => HasTag(instance, "plc") /\ instance.startup_script = "modbus_emulator"
            /\ role = "WEB_SERVER" =>
                HasTag(instance, "web") /\ instance.startup_script = "http"
            /\ role = "DATABASE_SERVER" =>
                /\ instance.machine_type = "e2-standard-2"
                /\ HasTag(instance, "database")
                /\ instance.startup_script = "database"
            /\ ~server => instance.machine_type = "e2-micro"

(***************************************************************************)
(* TerraformManager.get_outputs: `terraform output -json` run in the       *)
(* manager's directory, its exit code tested and its stdout parsed.        *)
(***************************************************************************)

ExitCodes == {0, 1, 2}

\* what the subcommand can print on stdout: JSON documents and other text
Stdouts ==
    {"{}", "{\"instance_ip\": {\"value\": \"10.1.0.2\"}}",
     "{\"a\": {\"value\": 1}, \"b\": {\"value\": 2}}", "", "{", "Warning: no outputs found"}

Stderrs == {"", "Error: Backend initialization required", "Error: No state file"}

\* subprocess.run raises when the executable or the directory is missing
ProcessErrors == {"FileNotFoundError", "NotADirectoryError", "PermissionError"}

Processes ==
    [raised : ProcessErrors, returncode : {0}, stdout : {""}, stderr : {""}]
    \cup [raised : {""}, returncode : ExitCodes, stdout : Stdouts, stderr : Stderrs]

\* json.loads(stdout): the output names of a JSON document, and whether the
\* text is one
loads(stdout) ==
    IF stdout = "{}" THEN [ok |-> TRUE, value |-> {}]
    ELSE IF stdout = "{\"instance_ip\": {\"value\": \"10.1.0.2\"}}"
    THEN [ok |-> TRUE, value |-> {"instance_ip"}]
    ELSE IF stdout = "{\"a\": {\"value\": 1}, \"b\": {\"value\": 2}}"
    THEN [ok |-> TRUE, value |-> {"a", "b"}]
    ELSE [ok |-> FALSE, value |-> {}]

\* the dictionaries get_outputs returns; a key that is not set is not in keys
Returned(success, keys, outputs, error) ==
    [success |-> success, keys |-> keys, outputs |-> outputs, error |-> error]

OutputsFrame == UNCHANGED <<baseVars, renderVars, cleanVars, dataVars, rolesVars, genVars, outgenVars, handlersVars, patternsVars, bundleVars, moveVars, detectVars, equivVars, subnetsVars>>

OutputsInit ==
    /\ tm_pc = "start"
    /\ tm_process = << >>
    /\ tm_return = << >>
    /\ tm_raised = FALSE
    /\ BaseIdle /\ RenderIdle /\ CleanIdle /\ DataIdle /\ RolesIdle /\ GenIdle /\ OutgenIdle /\ HandlersIdle /\ PatternsIdle /\ BundleIdle /\ MoveIdle /\ DetectIdle /\ EquivIdle /\ SubnetsIdle

\* _run_terraform_command("output", "-json", capture_output=True)
RunOutputCommand ==
    /\ tm_pc = "start"
    /\ tm_process' \in Processes
    /\ tm_pc' = "ran"
    /\ UNCHANGED <<tm_return, tm_raised>>
    /\ OutputsFrame

\* subprocess.run raised: the outer except returns the failure
ReturnException ==
    /\ tm_pc = "ran" /\ tm_process.raised # ""
    /\ tm_return' = Returned(FALSE, {"success", "error"}, {}, tm_process.raised)
    /\ tm_pc' = "returned"
    /\ UNCHANGED <<tm_process, tm_raised>>
    /\ OutputsFrame

\* the exit code is not 0
ReturnExitCode ==
    /\ tm_pc = "ran" /\ tm_process.raised = "" /\ tm_process.returncode # 0
    /\ tm_return' = Returned(FALSE, {"success", "error"}, {}, tm_process.stderr)
    /\ tm_pc' = "returned"
    /\ UNCHANGED <<tm_process, tm_raised>>
    /\ OutputsFrame

\* the exit code is 0 and stdout is a JSON document
ReturnOutputs ==
    /\ tm_pc = "ran" /\ tm_process.raised = "" /\ tm_process.returncode = 0
    /\ loads(tm_process.stdout).ok
    /\ tm_return' =
        Returned(TRUE, {"success", "outputs"}, loads(tm_process.stdout).value, "")
    /\ tm_pc' = "returned"
    /\ UNCHANGED <<tm_process, tm_raised>>
    /\ OutputsFrame

\* the exit code is 0 and json.loads raises JSONDecodeError
ReturnUnparsable ==
    /\ tm_pc = "ran" /\ tm_process.raised = "" /\ tm_process.returncode = 0
    /\ ~loads(tm_process.stdout).ok
    /\ tm_return' = Returned(TRUE, {"success", "outputs"}, {}, "")
    /\ tm_pc' = "returned"
    /\ UNCHANGED <<tm_process, tm_raised>>
    /\ OutputsFrame

NextOutputs ==
    \/ RunOutputCommand \/ ReturnException \/ ReturnExitCode
    \/ ReturnOutputs \/ ReturnUnparsable

SpecOutputs == OutputsInit /\ [][NextOutputs]_vars

\* C20: get_outputs reports failure (success false) with empty outputs both
\* when the output subcommand exits non-zero and when it exits zero but its
\* output cannot be parsed as JSON, and it never raises to the caller.
C20_FailureReported ==
    /\ ~tm_raised
    /\ (tm_pc = "returned" /\ tm_process.raised = "") =>
        ((tm_process.returncode # 0 \/ ~loads(tm_process.stdout).ok) =>
            ~tm_return.success /\ tm_return.outputs = {})

(***************************************************************************)
(* OutputGenerator.generate: the loop over the registered generators.  The *)
(* call generator.generate(data, output_path) is not inside a try block.   *)
(***************************************************************************)

GeneratorNames == {"GraphvizGenerator", "TerraformGenerator", "JSONExporter"}

\* the lists add_generator can build: every order of every set of generators
Registrations == UNION { Lists(S) : S \in SUBSET GeneratorNames }

PathValues == {"given", "missing", "none"}

\* output_paths.get(key, DEFAULT): the default when the key is absent, the
\* value, None included, when it is there
output_path(paths, name) == IF paths[name] = "missing" THEN "default" ELSE paths[name]

\* what generate of each class can do: GraphvizGenerator and JSONExporter
\* catch the errors of their writing and return None, TerraformGenerator
\* has no handler and returns output_dir or raises
GenerateOutcomes(name) ==
    IF name = "TerraformGenerator" THEN {"path", "raises"} ELSE {"path", "None"}

OutgenFrame == UNCHANGED <<baseVars, renderVars, cleanVars, dataVars, rolesVars, genVars, outputsVars, handlersVars, patternsVars, bundleVars, moveVars, detectVars, equivVars, subnetsVars>>

OutgenInit ==
    /\ og_generators \in Registrations
    /\ og_paths \in [GeneratorNames -> PathValues]
    /\ og_pc = "start"
    /\ og_index = 1
    /\ og_invoked = << >>
    /\ og_results = {}
    /\ og_raised = FALSE
    /\ BaseIdle /\ RenderIdle /\ CleanIdle /\ DataIdle /\ RolesIdle /\ GenIdle /\ OutputsIdle /\ HandlersIdle /\ PatternsIdle /\ BundleIdle /\ MoveIdle /\ DetectIdle /\ EquivIdle /\ SubnetsIdle

\* `if not self.generators: return {}`
NoGenerators ==
    /\ og_pc = "start" /\ og_generators = << >>
    /\ og_pc' = "returned"
    /\ UNCHANGED <<og_generators, og_paths, og_index, og_invoked, og_results, og_raised>>
    /\ OutgenFrame

LoopStart ==
    /\ og_pc = "start" /\ og_generators # << >>
    /\ og_pc' = "loop"
    /\ UNCHANGED <<og_generators, og_paths, og_index, og_invoked, og_results, og_raised>>
    /\ OutgenFrame

\* an iteration whose generator has no output path: `continue`
SkipGenerator ==
    /\ og_pc = "loop" /\ og_index <= Len(og_generators)
    /\ output_path(og_paths, og_generators[og_index]) = "none"
    /\ og_index' = og_index + 1
    /\ UNCHANGED <<og_generators, og_paths, og_pc, og_invoked, og_results, og_raised>>
    /\ OutgenFrame

\* an iteration that calls generator.generate: a result is stored, a None is
\* logged, an exception leaves the loop and the method
InvokeGenerator ==
    /\ og_pc = "loop" /\ og_index <= Len(og_generators)
    /\ output_path(og_paths, og_generators[og_index]) # "none"
    /\ LET name == og_generators[og_index]
       IN  /\ og_invoked' = Append(og_invoked, name)
           /\ \E outcome \in GenerateOutcomes(name) :
                /\ og_results' = IF outcome = "path" THEN og_results \cup {name}
                                 ELSE og_results
                /\ og_raised' = (outcome = "raises")
                /\ og_pc' = IF outcome = "raises" THEN "raised" ELSE "loop"
    /\ og_index' = og_index + 1
    /\ UNCHANGED <<og_generators, og_paths>>
    /\ OutgenFrame

\* `return results`
ReturnResults ==
    /\ og_pc = "loop" /\ og_index > Len(og_generators)
    /\ og_pc' = "returned"
    /\ UNCHANGED <<og_generators, og_paths, og_index, og_invoked, og_results, og_raised>>
    /\ OutgenFrame

NextOutgen ==
    \/ NoGenerators \/ LoopStart \/ SkipGenerator \/ InvokeGenerator \/ ReturnResults

SpecOutgen == OutgenInit /\ [][NextOutgen]_vars

\* the registered generators that have an output path, in registration order
RECURSIVE WithPath(_, _)
WithPath(generators, paths) ==
    IF generators = << >> THEN << >>
    ELSE (IF output_path(paths, Head(generators)) # "none"
          THEN <<Head(generators)>> ELSE << >>)
         \o WithPath(Tail(generators), paths)

\* C21: generate invokes every registered generator that was given an output
\* path, in registration order; the failure of one generator (a missing
\* result or a raised error) never prevents the generators after it from
\* being invoked; the returned map holds exactly the generators that
\* produced a path.
C21_AllGeneratorsInvoked ==
    og_pc \in {"returned", "raised"} =>
        /\ og_invoked = WithPath(og_generators, og_paths)
        /\ og_results \subseteq { og_invoked[i] : i \in DOMAIN og_invoked }

(***************************************************************************)
(* One traffic test seen from its pattern tasks: _execute_traffic_test     *)
(* starts one _execute_single_pattern task per pattern and gathers them;   *)
(* each task awaits the handler of its traffic type.  A step of a task     *)
(* runs from one await of the handler to the next, so every state is a     *)
(* point where another coroutine can read the result.                      *)
(***************************************************************************)

MaxHandlerRequests == 2

TrafficTypes == {"http", "https", "tcp", "udp", "modbus", "s7comm", "mqtt", "dns"}

\* the tests explored: the first pattern has any traffic type, the second
\* one of two
TestPatterns ==
    { <<first>> : first \in TrafficTypes }
    \cup { <<first, second>> : first \in TrafficTypes, second \in {"http", "s7comm"} }

Libraries == {"pymodbus", "paho"}

\* every traffic type is given the TCP handler
handler_for_everything(traffic_type) == "_handle_tcp_traffic"

\* self.protocol_handlers.get(pattern.traffic_type)
handler(traffic_type) ==
    IF traffic_type \notin protocol_handlers THEN "None"
    ELSE IF traffic_type \in {"http", "https"} THEN "_handle_http_traffic"
    ELSE "_handle_" \o traffic_type \o "_traffic"

\* the library a handler imports when it starts
Imports(traffic_type) ==
    IF traffic_type = "modbus" THEN {"pymodbus"}
    ELSE IF traffic_type = "mqtt" THEN {"paho"}
    ELSE {}

\* the message a handler appends when its import fails
ImportMessage(traffic_type) ==
    IF traffic_type = "modbus" THEN "pymodbus library not available"
    ELSE "paho-mqtt library not available"

\* what one pass of a handler's loop can meet
HandlerOutcomes(h) ==
    IF h = "_handle_http_traffic"
    THEN {"ok", "http_error", "timeout", "connection_error", "other", "ok_then_error"}
    ELSE IF h = "_handle_tcp_traffic" THEN {"ok", "timeout", "other"}
    ELSE IF h = "_handle_modbus_traffic" THEN {"ok", "error_response", "not_connected", "other"}
    ELSE IF h = "_handle_mqtt_traffic" THEN {"ok", "error_response", "other"}
    ELSE {"ok", "other"}

\* the text a handler appends for an outcome, "" when it appends nothing
OutcomeMessage(h, outcome) ==
    IF outcome \in {"ok", "not_connected"} THEN ""
    ELSE IF outcome = "http_error" THEN "HTTP 500"
    ELSE IF outcome = "timeout" THEN (IF h = "_handle_http_traffic" THEN "Timeout" ELSE "")
    ELSE IF outcome = "connection_error" THEN "Connection error"
    ELSE IF outcome = "error_response"
    THEN (IF h = "_handle_modbus_traffic" THEN "Modbus error response" ELSE "MQTT error: 1")
    ELSE "str(e)"

Plus(n, yes) == IF yes THEN n + 1 ELSE n

\* a counting in which a timeout is not counted as a failed request
CountLosingTimeouts(r, h, outcome) ==
    [r EXCEPT
       !.total_requests = @ + 1,
       !.successful_requests = Plus(@, outcome = "ok"),
       !.failed_requests = Plus(@, outcome \notin {"ok", "timeout"}),
       !.timeout_errors = Plus(@, outcome = "timeout"),
       !.error_messages = @]

\* the counters and messages after one pass of the handler's loop; in the
\* HTTP handler the response can also fail while it is released, after the
\* request was counted as successful, and the except branch counts again
Count(r, h, outcome) ==
    LET twice == outcome = "ok_then_error"
        message == OutcomeMessage(h, outcome)
    IN  [r EXCEPT
           !.total_requests = IF twice THEN @ + 2 ELSE @ + 1,
           !.successful_requests = Plus(@, outcome \in {"ok", "ok_then_error"}),
           !.failed_requests = Plus(@, outcome # "ok"),
           !.timeout_errors = Plus(@, outcome = "timeout"),
           !.connection_errors =
                Plus(@, \/ outcome \in {"connection_error", "not_connected"}
                        \/ (h = "_handle_tcp_traffic" /\ outcome = "other")),
           !.error_messages = IF message = "" THEN @ ELSE Append(@, message)]

\* the TestResult a pattern task builds, with its list of messages
FreshResult(pattern_id) == [NewResult(pattern_id) EXCEPT !.error_messages = << >>]

\* the except and finally blocks of _execute_single_pattern
Fail(r, message) ==
    [r EXCEPT !.status = "failed", !.end_time = "set",
              !.error_messages = Append(@, message)]

NoPatternTask == [st |-> "created", result |-> NoResult]

HandlersFrame == UNCHANGED <<baseVars, renderVars, cleanVars, dataVars, rolesVars, genVars, outputsVars, outgenVars, patternsVars, bundleVars, moveVars, detectVars, equivVars, subnetsVars>>

HandlersInit ==
    /\ hd_patterns \in TestPatterns
    /\ hd_libs \in SUBSET Libraries
    /\ hd_children = [i \in DOMAIN hd_patterns |-> NoPatternTask]
    /\ hd_cancelled = FALSE
    /\ BaseIdle /\ RenderIdle /\ CleanIdle /\ DataIdle /\ RolesIdle /\ GenIdle /\ OutputsIdle /\ OutgenIdle /\ PatternsIdle /\ BundleIdle /\ MoveIdle /\ DetectIdle /\ EquivIdle /\ SubnetsIdle

\* the handlers whose requests are blocking calls: their only await is the sleep
Blocking(h) ==
    h \in {"_handle_udp_traffic", "_handle_modbus_traffic", "_handle_mqtt_traffic"}

\* the pattern task's first step: the result is stored; without a handler
\* the exception is caught at once; a handler whose import fails appends its
\* message and returns; the other handlers run to their first await
PatternTaskStart(i) ==
    /\ hd_children[i].st = "created"
    /\ ~hd_cancelled
    /\ LET ty == hd_patterns[i]
           h == handler(ty)
           r == FreshResult(PatternId("t", i - 1))
       IN  IF h = "None"
           THEN hd_children' = [hd_children EXCEPT ![i] =
                    [st |-> "done", result |-> Fail(r, "Protocollo non supportato: " \o ty)]]
           ELSE IF ~(Imports(ty) \subseteq hd_libs)
           THEN hd_children' = [hd_children EXCEPT ![i] =
                    [st |-> "done",
                     result |-> CompletedResult(
                        [r EXCEPT !.error_messages = Append(@, ImportMessage(ty))])]]
           ELSE IF Blocking(h)
           THEN \E outcome \in HandlerOutcomes(h) :
                    hd_children' = [hd_children EXCEPT ![i] =
                        [st |-> "sleep", result |-> Count(r, h, outcome)]]
           ELSE hd_children' = [hd_children EXCEPT ![i] = [st |-> "request", result |-> r]]
    /\ UNCHANGED <<hd_patterns, hd_libs, hd_cancelled>>
    /\ HandlersFrame

\* the handler is resumed from the await of its request (HTTP, TCP, DNS) and
\* runs to asyncio.sleep
HandlerRequestDone(i) ==
    /\ hd_children[i].st = "request"
    /\ ~hd_cancelled
    /\ \E outcome \in HandlerOutcomes(handler(hd_patterns[i])) :
        hd_children' = [hd_children EXCEPT
            ![i].st = "sleep",
            ![i].result = Count(@, handler(hd_patterns[i]), outcome)]
    /\ UNCHANGED <<hd_patterns, hd_libs, hd_cancelled>>
    /\ HandlersFrame

\* the handler is resumed from asyncio.sleep: it returns when the time is
\* over; the handlers with blocking calls (UDP, Modbus, MQTT) make their
\* next request and sleep again, the others await their next request
HandlerSleepDone(i) ==
    /\ hd_children[i].st = "sleep"
    /\ ~hd_cancelled
    /\ LET h == handler(hd_patterns[i])
       IN  \/ hd_children' = [hd_children EXCEPT
                ![i].st = "done", ![i].result = CompletedResult(@)]
           \/ /\ hd_children[i].result.total_requests < MaxHandlerRequests
              /\ IF Blocking(h)
                 THEN \E outcome \in HandlerOutcomes(h) :
                        hd_children' = [hd_children EXCEPT
                            ![i].result = Count(@, h, outcome)]
                 ELSE hd_children' = [hd_children EXCEPT ![i].st = "request"]
    /\ UNCHANGED <<hd_patterns, hd_libs, hd_cancelled>>
    /\ HandlersFrame

\* the test task is cancelled while it gathers: CancelledError reaches every
\* pattern task at its await, and only the finally block runs
CancelTest ==
    /\ ~hd_cancelled
    /\ \E i \in DOMAIN hd_children : hd_children[i].st \in {"request", "sleep"}
    /\ hd_cancelled' = TRUE
    /\ hd_children' = [i \in DOMAIN hd_children |->
          IF hd_children[i].st \in {"request", "sleep"}
          THEN [st |-> "cancelled", result |-> CancelledResult(hd_children[i].result)]
          ELSE hd_children[i]]
    /\ UNCHANGED <<hd_patterns, hd_libs>>
    /\ HandlersFrame

NextHandlers ==
    \/ \E i \in DOMAIN hd_children : PatternTaskStart(i)
    \/ \E i \in DOMAIN hd_children : HandlerRequestDone(i)
    \/ \E i \in DOMAIN hd_children : HandlerSleepDone(i)
    \/ CancelTest

SpecHandlers == HandlersInit /\ [][NextHandlers]_vars

\* the pattern's traffic kind has no usable handler
NoUsableHandler(ty) == ty = "s7comm" \/ (ty \in {"modbus", "mqtt"} /\ Imports(ty) \cap hd_libs = {})

HasMessage(r, message) == \E k \in DOMAIN r.error_messages : r.error_messages[k] = message

\* C22: a pattern whose traffic kind has no usable handler (s7comm, or
\* modbus / mqtt without the client library) records a descriptive error
\* message, counts zero successful requests, ends in a terminal status, and
\* neither stops nor fails the other patterns of the same test.
C22_NoHandlerIsolated ==
    \A i \in DOMAIN hd_children :
        (NoUsableHandler(hd_patterns[i]) /\ hd_children[i].st # "created") =>
            LET r == hd_children[i].result
                ty == hd_patterns[i]
            IN  /\ hd_children[i].st = "done"
                /\ r.status \in TerminalStatuses /\ r.end_time = "set"
                /\ r.successful_requests = 0
                /\ HasMessage(r, IF ty = "s7comm" THEN "Protocollo non supportato: s7comm"
                                 ELSE IF ty = "modbus" THEN "pymodbus library not available"
                                 ELSE "paho-mqtt library not available")
                /\ \A j \in DOMAIN hd_children \ {i} :
                    (~NoUsableHandler(hd_patterns[j]) /\ ~hd_cancelled) =>
                        /\ hd_children[j].st \in {"created", "request", "sleep", "done"}
                        /\ hd_children[j].st = "done" =>
                                hd_children[j].result.status = "completed"

\* a modbus pattern without its library has ended, and the HTTP pattern of
\* the same test went on to complete a successful request
C22_Witness ==
    /\ hd_patterns = <<"modbus", "http">> /\ "pymodbus" \notin hd_libs
    /\ hd_children[1].st = "done"
    /\ hd_children[2].st = "done"
    /\ hd_children[2].result.successful_requests = 1

Counters ==
    {"total_requests", "successful_requests", "failed_requests", "connection_errors",
     "timeout_errors"}

\* the pattern tasks whose result exists
Observable(ch) == { i \in DOMAIN ch : ch[i].st # "created" }

\* C30: wherever a result can be observed (any suspension point of the
\* handlers, and after cancellation), total_requests = successful_requests +
\* failed_requests and connection_errors + timeout_errors <= failed_requests,
\* and none of these counters ever decreases.
C30_CountersConsistent ==
    [][/\ \A i \in Observable(hd_children') :
            LET r == hd_children'[i].result
            IN  /\ r.total_requests = r.successful_requests + r.failed_requests
                /\ r.connection_errors + r.timeout_errors <= r.failed_requests
       /\ \A i \in Observable(hd_children) : \A c \in Counters :
            hd_children'[i].result[c] >= hd_children[i].result[c]]_vars

\* a cancelled HTTP pattern that counted a timeout and a successful request
C30_Witness ==
    /\ hd_cancelled
    /\ hd_patterns[1] = "http"
    /\ hd_children[1].st = "cancelled"
    /\ hd_children[1].result.timeout_errors = 1
    /\ hd_children[1].result.successful_requests = 1

\* ---------------------------------------------------------------------------
\* TrafficPatternGenerator (traffic_injection/pattern_generator.py):
\* generate_patterns_from_analysis and generate_synthetic_load_test.
\* A pattern keeps the fields _validate_patterns reads, the traffic type and
\* the source address; payload, headers and protocol configuration are not
\* read by any statement modelled here.
\* ---------------------------------------------------------------------------

\* sorted_connections[:20]
TopConnections == 20

\* ports_to_test[:3]
PortsPerConnection == 3

\* the addresses of the analysed network, in the order network_data.hosts yields them
PgAddresses == << "10.0.0.0", "10.0.0.1", "10.0.0.2", "10.0.0.3", "10.0.0.4", "10.0.0.5" >>

\* network_data.host_ports restricted to the "dst" direction, as _map_infrastructure_hosts reads it
ListeningPorts(a) ==
    CASE a = "10.0.0.0" -> << 8080 >>
      [] a = "10.0.0.1" -> << >>
      [] a = "10.0.0.2" -> << 80, 443 >>
      [] a = "10.0.0.3" -> << 502, 102, 44818, 22 >>
      [] a = "10.0.0.4" -> << 3306 >>
      [] OTHER          -> << 53 >>

\* the elements of a list
Range(l) == { l[i] : i \in DOMAIN l }

\* the host_roles dictionaries of the runs: with and without a CLIENT host
RoleTables ==
    { [a \in Range(PgAddresses) |->
          CASE a = "10.0.0.0" -> "SERVER"
            [] a = "10.0.0.1" -> first
            [] a = "10.0.0.2" -> "WEB_SERVER"
            [] a = "10.0.0.3" -> "PLC_MODBUS"
            [] a = "10.0.0.4" -> "DATABASE_SERVER"
            [] OTHER          -> "GATEWAY"] : first \in {"CLIENT", "UNKNOWN"} }

\* the key sets of infrastructure_mapping: empty, all but 10.0.0.0, all
Mappings ==
    { {}, Range(PgAddresses) \ {"10.0.0.0"}, Range(PgAddresses) }

\* the connections between the hosts 10.0.0.1 .. 10.0.0.5, twenty ordered pairs
MappedPairs ==
    [i \in 1..20 |->
        LET s == ((i - 1) \div 4) + 1
            k == ((i - 1) % 4) + 1
            d == IF k < s THEN k ELSE k + 1
        IN  [src |-> PgAddresses[s + 1], dst |-> PgAddresses[d + 1],
             count |-> << 45, 5, 12 >>[(i % 3) + 1]]]

\* connections that touch 10.0.0.0, seen u times each
UnmappedPairs(u) ==
    << [src |-> "10.0.0.0", dst |-> "10.0.0.1", count |-> u],
       [src |-> "10.0.0.2", dst |-> "10.0.0.0", count |-> u] >>

\* network_data.connections in insertion order
ConnectionDicts ==
    { IF first THEN SubSeq(UnmappedPairs(u), 1, k) \o SubSeq(MappedPairs, 1, n)
               ELSE SubSeq(MappedPairs, 1, n) \o SubSeq(UnmappedPairs(u), 1, k) :
        n \in {2, 19, 20}, k \in 0..2, u \in {1, 45, 90}, first \in BOOLEAN }

PgDurations == {1, 3, 4, 60}

PgRates == {1, 10}

ScenarioLists ==
    { << "normal", "peak", "stress", "burst" >>, << "burst" >>, << "warmup", "normal" >> }

\* _map_infrastructure_hosts: one InfrastructureMapping per host of the data
\* model that is a key of the mapping, in the hosts' iteration order
RECURSIVE map_infrastructure_hosts(_, _, _)
map_infrastructure_hosts(hosts, roles, mapping) ==
    IF Len(hosts) = 0 THEN << >>
    ELSE LET a == Head(hosts)
             rest == map_infrastructure_hosts(Tail(hosts), roles, mapping)
         IN  IF a \in mapping
             THEN << [original_ip |-> a, gcp_ip |-> "gcp-" \o a,
                      role |-> roles[a], ports |-> ListeningPorts(a)] >> \o rest
             ELSE rest

\* port_to_traffic_type
port_to_traffic_type(port) ==
    CASE port \in {80, 8080}  -> "http"
      [] port \in {443, 8443} -> "https"
      [] port = 502           -> "modbus"
      [] port = 1883          -> "mqtt"
      [] port = 53            -> "dns"
      [] port \in {102, 22, 21, 25, 3306} -> "tcp"
      [] OTHER                -> ""

\* role_to_traffic_type[role][0]
role_to_traffic_type(role) ==
    CASE role = "WEB_SERVER"  -> "http"
      [] role = "PLC_MODBUS"  -> "modbus"
      [] role = "MQTT_BROKER" -> "mqtt"
      [] role = "DNS_SERVER"  -> "dns"
      [] role = "CLIENT"      -> "http"
      [] role \in {"DATABASE_SERVER", "PLC_S7COMM", "PLC_ETHERNET_IP", "SSH_SERVER",
                   "FTP_SERVER", "MAIL_SERVER", "GATEWAY", "UNKNOWN"} -> "tcp"
      [] OTHER                -> ""

\* _determine_traffic_type
determine_traffic_type(role, port) ==
    IF port_to_traffic_type(port) # "" THEN port_to_traffic_type(port)
    ELSE IF role_to_traffic_type(role) # "" THEN role_to_traffic_type(role)
    ELSE "tcp"

\* TrafficPattern(...)
TrafficPattern(src, dst, port, duration, rps) ==
    [source_ip |-> src.gcp_ip, destination_ip |-> dst.gcp_ip, destination_port |-> port,
     traffic_type |-> determine_traffic_type(dst.role, port),
     duration_seconds |-> duration, requests_per_second |-> rps]

\* the first n elements of a list, l[:n]
Take(l, n) == SubSeq(l, 1, Min(n, Len(l)))

\* sorted(connections.items(), key=count, reverse=True): positions of the
\* dictionary, highest count first, equal counts in insertion order
RECURSIVE SortedFrom(_, _)
SortedFrom(conns, left) ==
    IF left = {} THEN << >>
    ELSE LET i == CHOOSE j \in left :
                    \A m \in left : \/ conns[j].count > conns[m].count
                                    \/ conns[j].count = conns[m].count /\ j <= m
         IN  << i >> \o SortedFrom(conns, left \ {i})

sorted_connections(conns) == SortedFrom(conns, DOMAIN conns)

top_connections(conns) == Take(sorted_connections(conns), TopConnections)

\* scaled_rps
scaled_rps(base_rps, count) == Min(base_rps + (count \div 10), base_rps * 3)

\* the hosts of the call: the mapped hosts of the analysis, or target_hosts
infrastructure_hosts ==
    map_infrastructure_hosts(PgAddresses, pg_input.roles, pg_input.mapping)

\* host_map[ip], for ip a key of host_map
HostOf(hosts, ip) == hosts[CHOOSE i \in DOMAIN hosts : hosts[i].original_ip = ip]

InHostMap(hosts, ip) == \E i \in DOMAIN hosts : hosts[i].original_ip = ip

\* the patterns the body of the loop over top_connections appends for one connection
ConnectionPatternsOf(hosts, conn, test_duration, base_rps) ==
    LET src == HostOf(hosts, conn.src)
        dst == HostOf(hosts, conn.dst)
        ports_to_test == IF Len(dst.ports) > 0 THEN dst.ports ELSE << 80 >>
        tested == Take(ports_to_test, PortsPerConnection)
    IN  [k \in DOMAIN tested |->
            TrafficPattern(src, dst, tested[k], test_duration,
                           scaled_rps(base_rps, conn.count))]

\* [h for h in hosts if h.role in roles]
RECURSIVE WithRole(_, _)
WithRole(hosts, roles) ==
    IF Len(hosts) = 0 THEN << >>
    ELSE (IF Head(hosts).role \in roles THEN << Head(hosts) >> ELSE << >>)
         \o WithRole(Tail(hosts), roles)

\* client_hosts: the CLIENT hosts, or the first host when there is none
client_hosts(hosts) ==
    IF Len(WithRole(hosts, {"CLIENT"})) > 0 THEN WithRole(hosts, {"CLIENT"})
    ELSE Take(hosts, 1)

\* _create_service_test_patterns
RECURSIVE ServicePortPatterns(_, _, _, _, _)
ServicePortPatterns(client, server, ports, test_duration, base_rps) ==
    IF Len(ports) = 0 THEN << >>
    ELSE LET normal == TrafficPattern(client, server, Head(ports),
                                      test_duration \div 2, base_rps)
             large  == TrafficPattern(client, server, Head(ports),
                                      test_duration \div 4, base_rps \div 2)
         IN  << normal >>
             \o (IF normal.traffic_type \in {"http", "https", "tcp"} THEN << large >> ELSE << >>)
             \o ServicePortPatterns(client, server, Tail(ports), test_duration, base_rps)

create_service_test_patterns(client, server, test_duration, base_rps) ==
    ServicePortPatterns(client, server,
        IF Len(server.ports) > 0 THEN Take(server.ports, PortsPerConnection) ELSE << 80 >>,
        test_duration, base_rps)

\* _generate_service_based_patterns
RECURSIVE ServiceLoop(_, _, _, _)
ServiceLoop(client, hosts, test_duration, base_rps) ==
    IF Len(hosts) = 0 THEN << >>
    ELSE (IF Head(hosts).role \in {"SERVER", "WEB_SERVER", "DATABASE_SERVER",
                                    "PLC_MODBUS", "MQTT_BROKER"}
          THEN create_service_test_patterns(client, Head(hosts), test_duration, base_rps)
          ELSE << >>)
         \o ServiceLoop(client, Tail(hosts), test_duration, base_rps)

generate_service_based_patterns(hosts, test_duration, base_rps) ==
    IF Len(client_hosts(hosts)) = 0 THEN << >>
    ELSE ServiceLoop(client_hosts(hosts)[1], hosts, test_duration, base_rps)

\* main_port
main_port(server) == IF Len(server.ports) > 0 THEN server.ports[1] ELSE 80

\* _generate_stress_test_patterns
generate_stress_test_patterns(hosts, test_duration, stress_rps) ==
    IF Len(client_hosts(hosts)) = 0 THEN << >>
    ELSE LET critical == WithRole(hosts, {"WEB_SERVER", "DATABASE_SERVER", "GATEWAY"})
             stress_duration == Min(test_duration \div 2, 30)
         IN  [k \in DOMAIN critical |->
                 TrafficPattern(client_hosts(hosts)[1], critical[k], main_port(critical[k]),
                                stress_duration, stress_rps)]

\* scenario_configs: rps and duration_factor, the factor in tenths
scenario_configs ==
    [normal |-> [rps |-> 10,  tenths |-> 10],
     peak   |-> [rps |-> 50,  tenths |-> 8],
     stress |-> [rps |-> 100, tenths |-> 5],
     burst  |-> [rps |-> 200, tenths |-> 2]]

\* int(duration * config['duration_factor'])
scenario_duration(duration, config) == (duration * config.tenths) \div 10

\* generate_synthetic_load_test
RECURSIVE ScenarioLoop(_, _, _, _)
ScenarioLoop(client, servers, scenarios, duration) ==
    IF Len(scenarios) = 0 THEN << >>
    ELSE (IF Head(scenarios) \in DOMAIN scenario_configs
          THEN LET config == scenario_configs[Head(scenarios)]
               IN  [k \in DOMAIN servers |->
                       TrafficPattern(client, servers[k], main_port(servers[k]),
                                      scenario_duration(duration, config), config.rps)]
          ELSE << >>)
         \o ScenarioLoop(client, servers, Tail(scenarios), duration)

generate_synthetic_load_test(hosts, scenarios, duration) ==
    IF Len(client_hosts(hosts)) = 0 THEN << >>
    ELSE ScenarioLoop(client_hosts(hosts)[1],
                      WithRole(hosts, {"WEB_SERVER", "DATABASE_SERVER", "SERVER",
                                       "PLC_MODBUS", "MQTT_BROKER"}),
                      scenarios, duration)

PatternsFrame == UNCHANGED <<baseVars, renderVars, cleanVars, dataVars, rolesVars, genVars, outputsVars, outgenVars, handlersVars, bundleVars, moveVars, detectVars, equivVars, subnetsVars>>

PatternsInit ==
    /\ pg_call \in {"analysis", "synthetic"}
    /\ \E roles \in RoleTables, mapping \in Mappings, d \in PgDurations :
          \/ /\ pg_call = "analysis"
             /\ \E conns \in ConnectionDicts, r \in PgRates :
                   pg_input = [connections |-> conns, roles |-> roles, mapping |-> mapping,
                               test_duration |-> d, base_rps |-> r, scenarios |-> << >>]
          \/ /\ pg_call = "synthetic"
             /\ \E sc \in ScenarioLists :
                   pg_input = [connections |-> << >>, roles |-> roles, mapping |-> mapping,
                               test_duration |-> d, base_rps |-> 0, scenarios |-> sc]
    /\ pg_pc = IF pg_call = "analysis" THEN "connections" ELSE "synthetic"
    /\ pg_index = 1
    /\ pg_yielded = {}
    /\ pg_patterns = << >>
    /\ BaseIdle /\ RenderIdle /\ CleanIdle /\ DataIdle /\ RolesIdle /\ GenIdle /\ OutputsIdle /\ OutgenIdle /\ HandlersIdle /\ BundleIdle /\ MoveIdle /\ DetectIdle /\ EquivIdle /\ SubnetsIdle

\* for (src_ip, dst_ip), count in top_connections: both ends in host_map
ConnectionPatterns ==
    /\ pg_pc = "connections"
    /\ pg_index <= Len(top_connections(pg_input.connections))
    /\ LET at == top_connections(pg_input.connections)[pg_index]
           conn == pg_input.connections[at]
       IN  /\ InHostMap(infrastructure_hosts, conn.src)
           /\ InHostMap(infrastructure_hosts, conn.dst)
           /\ pg_patterns' = pg_patterns \o
                  ConnectionPatternsOf(infrastructure_hosts, conn,
                                       pg_input.test_duration, pg_input.base_rps)
           /\ pg_yielded' = pg_yielded \cup {at}
    /\ pg_index' = pg_index + 1
    /\ UNCHANGED <<pg_call, pg_input, pg_pc>>
    /\ PatternsFrame

\* the same loop, an end of the connection is not in host_map
ConnectionSkipped ==
    /\ pg_pc = "connections"
    /\ pg_index <= Len(top_connections(pg_input.connections))
    /\ LET conn == pg_input.connections[top_connections(pg_input.connections)[pg_index]]
       IN  ~(InHostMap(infrastructure_hosts, conn.src) /\ InHostMap(infrastructure_hosts, conn.dst))
    /\ pg_index' = pg_index + 1
    /\ UNCHANGED <<pg_call, pg_input, pg_pc, pg_yielded, pg_patterns>>
    /\ PatternsFrame

\* _generate_connection_based_patterns returns
ConnectionsEnd ==
    /\ pg_pc = "connections"
    /\ pg_index > Len(top_connections(pg_input.connections))
    /\ pg_pc' = "services"
    /\ UNCHANGED <<pg_call, pg_input, pg_index, pg_yielded, pg_patterns>>
    /\ PatternsFrame

\* patterns.extend(self._generate_service_based_patterns(...))
ServicePatterns ==
    /\ pg_pc = "services"
    /\ pg_patterns' = pg_patterns \o
           generate_service_based_patterns(infrastructure_hosts,
                                           pg_input.test_duration, pg_input.base_rps)
    /\ pg_pc' = "stress"
    /\ UNCHANGED <<pg_call, pg_input, pg_index, pg_yielded>>
    /\ PatternsFrame

\* patterns.extend(self._generate_stress_test_patterns(..., base_rps * 5)); return patterns
StressPatterns ==
    /\ pg_pc = "stress"
    /\ pg_patterns' = pg_patterns \o
           generate_stress_test_patterns(infrastructure_hosts,
                                         pg_input.test_duration, pg_input.base_rps * 5)
    /\ pg_pc' = "returned"
    /\ UNCHANGED <<pg_call, pg_input, pg_index, pg_yielded>>
    /\ PatternsFrame

\* generate_synthetic_load_test(target_hosts, test_scenarios, duration)
SyntheticLoad ==
    /\ pg_pc = "synthetic"
    /\ pg_patterns' = generate_synthetic_load_test(infrastructure_hosts,
                                                   pg_input.scenarios, pg_input.test_duration)
    /\ pg_pc' = "returned"
    /\ UNCHANGED <<pg_call, pg_input, pg_index, pg_yielded>>
    /\ PatternsFrame

NextPatterns ==
    \/ ConnectionPatterns
    \/ ConnectionSkipped
    \/ ConnectionsEnd
    \/ ServicePatterns
    \/ StressPatterns
    \/ SyntheticLoad

SpecPatterns == PatternsInit /\ [][NextPatterns]_vars

\* the connections, by position, whose two ends are both in the infrastructure mapping
Eligible ==
    { i \in DOMAIN pg_input.connections :
        /\ InHostMap(infrastructure_hosts, pg_input.connections[i].src)
        /\ InHostMap(infrastructure_hosts, pg_input.connections[i].dst) }

\* C23: once the connection-derived patterns are built, the connections that
\* gave patterns are the 20 most frequent of those with both ends in the
\* infrastructure mapping: all of them when there are fewer than 20, exactly
\* 20 otherwise, and none that was seen less often than one left out.
C23_TopTwentyOfMapped ==
    (pg_call = "analysis" /\ pg_pc # "connections") =>
        /\ pg_yielded \subseteq Eligible
        /\ Cardinality(pg_yielded) = Min(TopConnections, Cardinality(Eligible))
        /\ \A i \in pg_yielded : \A j \in Eligible \ pg_yielded :
              pg_input.connections[i].count >= pg_input.connections[j].count

\* the rest of the same paragraph: each step of the loop appends at most 3
\* patterns, one per listening port of the destination in order (port 80 when
\* it has none), each with the scaled rate
ConnectionPatternsShape ==
    [][ConnectionPatterns =>
        LET conn == pg_input.connections[top_connections(pg_input.connections)[pg_index]]
            ports == ListeningPorts(conn.dst)
            added == SubSeq(pg_patterns', Len(pg_patterns) + 1, Len(pg_patterns'))
        IN  /\ Len(added) = IF Len(ports) = 0 THEN 1 ELSE Min(3, Len(ports))
            /\ \A k \in DOMAIN added :
                  /\ added[k].destination_port = IF Len(ports) = 0 THEN 80 ELSE ports[k]
                  /\ added[k].requests_per_second =
                        IF pg_input.base_rps + (conn.count \div 10) < 3 * pg_input.base_rps
                        THEN pg_input.base_rps + (conn.count \div 10)
                        ELSE 3 * pg_input.base_rps
                  /\ (conn.count = 45 /\ pg_input.base_rps = 10)
                        => added[k].requests_per_second = 14]_vars

\* C27: every pattern a call of generate_patterns_from_analysis or
\* generate_synthetic_load_test returns, for a positive duration and a positive
\* base rate, passes _validate_patterns.
C27_GeneratedPatternsValid ==
    pg_pc = "returned" =>
        \A k \in DOMAIN pg_patterns : PatternError(pg_patterns[k]) = "ok"

\* ---------------------------------------------------------------------------
\* TerraformGenerator.generate (output_generators/terraform_generator.py):
\* the resources each file of the bundle declares and the resources it refers
\* to.  A host address is the list of its dot-separated labels, so that
\* host.replace('.', '-') and the f-strings build the names they build.
\* The per-port firewall rules refer to main_network only, as allow_ssh does.
\* ---------------------------------------------------------------------------

BundleHosts ==
    { << "10", "0", "0", "1" >>, << "10", "0", "0", "2" >>, << "192", "168", "1", "5" >> }

BundleSubnets == { "10.0.0.0/24", "192.168.1.0/24" }

\* sep.join(labels)
RECURSIVE Join(_, _)
Join(labels, sep) ==
    IF Len(labels) = 0 THEN ""
    ELSE IF Len(labels) = 1 THEN labels[1]
    ELSE labels[1] \o sep \o Join(Tail(labels), sep)

\* host_safe = host.replace('.', '-')
host_safe(host) == Join(host, "-")

\* the name of the instance resource written for a host
InstanceName(host) == "host-" \o host_safe(host)

\* the resource name the outputs file writes for a host
OutputReference(host) == "host_" \o host_safe(host)

\* the arguments: host_roles keys in dictionary order, subnets for some of the hosts
BundleInputs ==
    { [hosts |-> l, subnets |-> s] :
        l \in UNION { Lists(H) : H \in SUBSET BundleHosts },
        s \in UNION { [D -> BundleSubnets] : D \in SUBSET BundleHosts } }

\* unique_subnets = set(subnets.values())
unique_subnets(subnets) == { subnets[h] : h \in DOMAIN subnets }

BundleFrame == UNCHANGED <<baseVars, renderVars, cleanVars, dataVars, rolesVars, genVars, outputsVars, outgenVars, handlersVars, patternsVars, moveVars, detectVars, equivVars, subnetsVars>>

BundleInit ==
    /\ tfb_input \in BundleInputs
    /\ tfb_pc = "network"
    /\ tfb_index = 1
    /\ tfb_subnet_map = << >>
    /\ tfb_declared = {}
    /\ tfb_references = {}
    /\ BaseIdle /\ RenderIdle /\ CleanIdle /\ DataIdle /\ RolesIdle /\ GenIdle /\ OutputsIdle /\ OutgenIdle /\ HandlersIdle /\ PatternsIdle /\ MoveIdle /\ DetectIdle /\ EquivIdle /\ SubnetsIdle

\* network.tf: main_network, allow_ssh and one subnetwork per unique subnet,
\* numbered in the order the set yields them
WriteNetworkFile ==
    /\ tfb_pc = "network"
    /\ \E order \in Lists(unique_subnets(tfb_input.subnets)) :
          /\ tfb_subnet_map' =
                [s \in unique_subnets(tfb_input.subnets) |->
                    "subnet-" \o ToString(CHOOSE k \in DOMAIN order : order[k] = s)]
          /\ tfb_declared' =
                { << "google_compute_network", "main_network" >>,
                  << "google_compute_firewall", "allow_ssh" >> }
                \cup { << "google_compute_subnetwork", "subnet-" \o ToString(k) >> :
                          k \in DOMAIN order }
    /\ tfb_references' = { [file |-> "network.tf", type |-> "google_compute_network",
                            name |-> "main_network"] }
    /\ tfb_pc' = "instances"
    /\ UNCHANGED <<tfb_input, tfb_index>>
    /\ BundleFrame

\* instances.tf: the body of `for host, role in host_roles.items()`
WriteInstanceResource ==
    /\ tfb_pc = "instances"
    /\ tfb_index <= Len(tfb_input.hosts)
    /\ LET host == tfb_input.hosts[tfb_index]
           unique == unique_subnets(tfb_input.subnets)
       IN  \E subnet \in IF host \in DOMAIN tfb_input.subnets THEN {tfb_input.subnets[host]}
                         ELSE IF unique # {} THEN unique
                         ELSE {"unknown"} :
              LET subnet_resource == IF subnet \in DOMAIN tfb_subnet_map
                                     THEN tfb_subnet_map[subnet]
                                     ELSE "subnet-1"
              IN  /\ tfb_declared' = tfb_declared \cup
                        { << "google_compute_instance", InstanceName(host) >> }
                  /\ tfb_references' = tfb_references \cup
                        { [file |-> "instances.tf", type |-> "google_compute_network",
                           name |-> "main_network"],
                          [file |-> "instances.tf", type |-> "google_compute_subnetwork",
                           name |-> subnet_resource] }
    /\ tfb_index' = tfb_index + 1
    /\ UNCHANGED <<tfb_input, tfb_pc, tfb_subnet_map>>
    /\ BundleFrame

\* the loop over host_roles ends, instances.tf is closed
InstancesFileEnd ==
    /\ tfb_pc = "instances"
    /\ tfb_index > Len(tfb_input.hosts)
    /\ tfb_pc' = "outputs"
    /\ tfb_index' = 1
    /\ UNCHANGED <<tfb_input, tfb_subnet_map, tfb_declared, tfb_references>>
    /\ BundleFrame

\* outputs.tf: one entry of original_to_gcp_mapping
WriteOutputEntry ==
    /\ tfb_pc = "outputs"
    /\ tfb_index <= Len(tfb_input.hosts)
    /\ tfb_references' = tfb_references \cup
          { [file |-> "outputs.tf", type |-> "google_compute_instance",
             name |-> OutputReference(tfb_input.hosts[tfb_index])] }
    /\ tfb_index' = tfb_index + 1
    /\ UNCHANGED <<tfb_input, tfb_pc, tfb_subnet_map, tfb_declared>>
    /\ BundleFrame

\* return output_dir
BundleReturn ==
    /\ tfb_pc = "outputs"
    /\ tfb_index > Len(tfb_input.hosts)
    /\ tfb_pc' = "returned"
    /\ UNCHANGED <<tfb_input, tfb_index, tfb_subnet_map, tfb_declared, tfb_references>>
    /\ BundleFrame

NextBundle ==
    \/ WriteNetworkFile
    \/ WriteInstanceResource
    \/ InstancesFileEnd
    \/ WriteOutputEntry
    \/ BundleReturn

SpecBundle == BundleInit /\ [][NextBundle]_vars

Resolves(r) == << r.type, r.name >> \in tfb_declared

\* C28: in a bundle generate has written, every resource reference names a
\* resource the bundle declares: the subnetwork of every instance's network
\* interface is a declared subnetwork, and every entry of
\* original_to_gcp_mapping names a declared instance.
C28_ReferencesResolve ==
    tfb_pc = "returned" => \A r \in tfb_references : Resolves(r)

\* the two halves of it, and the references to the network
SubnetworkReferencesResolve ==
    tfb_pc = "returned" =>
        \A r \in tfb_references : r.type = "google_compute_subnetwork" => Resolves(r)

OutputReferencesResolve ==
    tfb_pc = "returned" =>
        \A r \in tfb_references : r.file = "outputs.tf" => Resolves(r)

SubnetworkResolvesWhenMapped ==
    (tfb_pc = "returned" /\ DOMAIN tfb_input.subnets # {}) =>
        \A r \in tfb_references : r.type = "google_compute_subnetwork" => Resolves(r)

\* ---------------------------------------------------------------------------
\* GCSFileManager.move_file_to_processed (api.py).  An object name is the
\* list of its parts, a folder part ending in '/', so that
\* blob_name.replace('uploads/', 'processed/', 1) rewrites what it rewrites.
\* Each storage call either succeeds or raises.
\* ---------------------------------------------------------------------------

ObjectNames ==
    { << "uploads/", "s1/", "a.pcap" >>,
      << "uploads/", "uploads/", "a.pcap" >>,
      << "processed/", "s1/", "a.pcap" >>,
      << "processed/", "uploads/", "a.pcap" >>,
      << "a.pcap" >> }

Contents == { "old", "new" }

\* the buckets a call can find: some of the names, and the names they can be moved to
Buckets ==
    UNION { [D -> Contents] : D \in SUBSET ObjectNames }

\* s.replace(old, new, 1) on the parts of a name
RECURSIVE replace_first(_, _, _)
replace_first(name, old, new) ==
    IF Len(name) = 0 THEN << >>
    ELSE IF Head(name) = old THEN << new >> \o Tail(name)
    ELSE << Head(name) >> \o replace_first(Tail(name), old, new)

\* processed_blob_name
processed_blob_name(blob_name) == replace_first(blob_name, "uploads/", "processed/")

\* bucket.copy_blob(source_blob, bucket, new_name)
copy_blob(b, source, new_name) ==
    [n \in DOMAIN b \cup {new_name} |-> IF n = new_name THEN b[source] ELSE b[n]]

\* source_blob.delete()
delete(b, name) == [n \in DOMAIN b \ {name} |-> b[n]]

MoveFrame == UNCHANGED <<baseVars, renderVars, cleanVars, dataVars, rolesVars, genVars, outputsVars, outgenVars, handlersVars, patternsVars, bundleVars, detectVars, equivVars, subnetsVars>>

MoveInit ==
    /\ mv_bucket \in Buckets
    /\ mv_before = mv_bucket
    /\ mv_name \in ObjectNames
    /\ mv_pc = "exists"
    /\ mv_return = << >>
    /\ mv_raised = ""
    /\ BaseIdle /\ RenderIdle /\ CleanIdle /\ DataIdle /\ RolesIdle /\ GenIdle /\ OutputsIdle /\ OutgenIdle /\ HandlersIdle /\ PatternsIdle /\ BundleIdle /\ DetectIdle /\ EquivIdle /\ SubnetsIdle

\* if not source_blob.exists(): raise FileNotFoundError
SourceMissing ==
    /\ mv_pc = "exists"
    /\ mv_name \notin DOMAIN mv_bucket
    /\ mv_raised' = "FileNotFoundError"
    /\ mv_pc' = "raised"
    /\ UNCHANGED <<mv_bucket, mv_before, mv_name, mv_return>>
    /\ MoveFrame

\* source_blob.exists() is true
SourceExists ==
    /\ mv_pc = "exists"
    /\ mv_name \in DOMAIN mv_bucket
    /\ mv_pc' = "copy"
    /\ UNCHANGED <<mv_bucket, mv_before, mv_name, mv_return, mv_raised>>
    /\ MoveFrame

\* bucket.copy_blob(source_blob, bucket, processed_blob_name)
CopyBlob ==
    /\ mv_pc = "copy"
    /\ mv_bucket' = copy_blob(mv_bucket, mv_name, processed_blob_name(mv_name))
    /\ mv_pc' = "delete"
    /\ UNCHANGED <<mv_before, mv_name, mv_return, mv_raised>>
    /\ MoveFrame

\* source_blob.delete(); return processed_blob_name
DeleteSource ==
    /\ mv_pc = "delete"
    /\ mv_bucket' = delete(mv_bucket, mv_name)
    /\ mv_return' = processed_blob_name(mv_name)
    /\ mv_pc' = "returned"
    /\ UNCHANGED <<mv_before, mv_name, mv_raised>>
    /\ MoveFrame

\* copy_blob or delete raises: logged and raised again
StorageError ==
    /\ mv_pc \in {"copy", "delete"}
    /\ mv_raised' = "GoogleAPIError"
    /\ mv_pc' = "raised"
    /\ UNCHANGED <<mv_bucket, mv_before, mv_name, mv_return>>
    /\ MoveFrame

NextMove ==
    \/ SourceMissing
    \/ SourceExists
    \/ CopyBlob
    \/ DeleteSource
    \/ StorageError

SpecMove == MoveInit /\ [][NextMove]_vars

\* C29: when move_file_to_processed returns for an object that existed, the
\* bucket holds the object's content under the returned name, whatever the
\* name was.
C29_ContentKept ==
    mv_pc = "returned" =>
        /\ mv_return \in DOMAIN mv_bucket
        /\ mv_bucket[mv_return] = mv_before[mv_name]

\* the same for the names that contain 'uploads/'
ContentKeptUnderUploads ==
    (mv_pc = "returned" /\ \E i \in DOMAIN mv_name : mv_name[i] = "uploads/") =>
        /\ mv_return \in DOMAIN mv_bucket
        /\ mv_bucket[mv_return] = mv_before[mv_name]

\* ---------------------------------------------------------------------------
\* analyze (api.py) with AnalysisOrchestrator.run, _detect_file_type and
\* _run_analysis_phase (analysis_orchestrator.py): which parser reads each
\* object.  A file name is the list of its dot-separated labels.
\* ---------------------------------------------------------------------------

BlobNames ==
    { << "uploads/s1/plant", "csv" >>, << "uploads/s1/plant", "CSV" >>,
      << "uploads/s1/flows", "nflow" >>, << "uploads/s1/flows", "nfcapd" >>,
      << "uploads/s1/trace", "pcap" >>, << "uploads/s1/trace", "pcapng" >>,
      << "uploads/s1/notes", "txt" >>, << "uploads/s1/README" >> }

\* the requests: one or two objects, and data.get('type', 'auto')
DetectRequests ==
    { [blob_names |-> l, type |-> t] :
        l \in { << a >> : a \in BlobNames } \cup { << a, b >> : a \in BlobNames, b \in BlobNames },
        t \in {"auto", "pcap", "csv", "netflow"} }

\* the names tempfile.NamedTemporaryFile(delete=False, suffix='.pcap') gives
TempNames == { << "/tmp/tmpk3x9", "pcap" >>, << "/tmp/tmp0qzw", "pcap" >> }

\* str.lower() on the labels in use
lower(label) ==
    CASE label = "CSV" -> "csv"
      [] OTHER -> label

\* os.path.splitext(input_file)[1].lower()
file_ext(input_file) ==
    IF Len(input_file) >= 2 THEN "." \o lower(input_file[Len(input_file)]) ELSE ""

\* the analyzer method _run_analysis_phase calls for a file type
parser(file_type) ==
    CASE file_type = "pcap"    -> "analyze_pcap_file"
      [] file_type = "csv"     -> "analyze_csv_file"
      [] file_type = "netflow" -> "analyze_netflow_file"
      [] OTHER                 -> "none"

DetectFrame == UNCHANGED <<baseVars, renderVars, cleanVars, dataVars, rolesVars, genVars, outputsVars, outgenVars, handlersVars, patternsVars, bundleVars, moveVars, equivVars, subnetsVars>>

DetectInit ==
    /\ dt_request \in DetectRequests
    /\ dt_pc = "download"
    /\ dt_index = 1
    /\ dt_temp = << >>
    /\ dt_file_type = ""
    /\ dt_applied = << >>
    /\ BaseIdle /\ RenderIdle /\ CleanIdle /\ DataIdle /\ RolesIdle /\ GenIdle /\ OutputsIdle /\ OutgenIdle /\ HandlersIdle /\ PatternsIdle /\ BundleIdle /\ MoveIdle /\ EquivIdle /\ SubnetsIdle

\* download_file_to_memory, then the content is written to a temporary file
TempCopy ==
    /\ dt_pc = "download"
    /\ dt_index <= Len(dt_request.blob_names)
    /\ dt_temp' \in TempNames
    /\ dt_pc' = "run"
    /\ UNCHANGED <<dt_request, dt_index, dt_file_type, dt_applied>>
    /\ DetectFrame

\* orchestrator.run(input_file=temp_file_path, file_type=file_type, ...):
\* the type is detected from input_file when it is None or 'auto'
RunDetect ==
    /\ dt_pc = "run"
    /\ dt_file_type' = IF dt_request.type = "auto" THEN detect_file_type(file_ext(dt_temp))
                       ELSE dt_request.type
    /\ dt_pc' = "analysis"
    /\ UNCHANGED <<dt_request, dt_index, dt_temp, dt_applied>>
    /\ DetectFrame

\* _run_analysis_phase(input_file, file_type); the temporary file is removed
\* and the loop goes to the next object
ApplyParser ==
    /\ dt_pc = "analysis"
    /\ dt_applied' = Append(dt_applied,
                            [blob_name |-> dt_request.blob_names[dt_index],
                             parser |-> parser(dt_file_type)])
    /\ dt_index' = dt_index + 1
    /\ dt_temp' = << >>
    /\ dt_file_type' = ""
    /\ dt_pc' = "download"
    /\ UNCHANGED dt_request
    /\ DetectFrame

\* the loop over blob_names ends
DetectEnd ==
    /\ dt_pc = "download"
    /\ dt_index > Len(dt_request.blob_names)
    /\ dt_pc' = "done"
    /\ UNCHANGED <<dt_request, dt_index, dt_temp, dt_file_type, dt_applied>>
    /\ DetectFrame

NextDetect ==
    \/ TempCopy
    \/ RunDetect
    \/ ApplyParser
    \/ DetectEnd

SpecDetect == DetectInit /\ [][NextDetect]_vars

\* the parser the extension table names for an object, by the object's own name
ParserByExtension(blob_name) ==
    LET ext == IF Len(blob_name) >= 2 THEN blob_name[Len(blob_name)] ELSE ""
    IN  IF ext \in {"pcap", "pcapng"} THEN "analyze_pcap_file"
        ELSE IF ext \in {"nflow", "nfcapd"} THEN "analyze_netflow_file"
        ELSE "analyze_csv_file"

\* C26: with type 'auto' every object is read by the parser its own name's
\* extension selects: .csv by the delimited-text parser, .nflow and .nfcapd by
\* the flow parser, .pcap and .pcapng by the packet-capture parser.
C26_ParserByObjectName ==
    dt_request.type = "auto" =>
        \A k \in DOMAIN dt_applied :
            dt_applied[k].parser = ParserByExtension(dt_applied[k].blob_name)

\* what the code does instead: with 'auto' every object goes to the packet-capture parser
AutoAlwaysPcap ==
    dt_request.type = "auto" =>
        \A k \in DOMAIN dt_applied : dt_applied[k].parser = "analyze_pcap_file"

\* ---------------------------------------------------------------------------
\* NetworkAnalyzer.infer_host_roles (network_analyzer.py 87-173) beside
\* NetworkEnricher.enrich_host_roles called without a role dictionary
\* (network_enricher.py 19-102), on one NetworkData and with one iteration
\* order of each host's port set.  The analyzer's loops are the operators of
\* the role inference part above; the enricher's are written out here from
\* its own text.
\* ---------------------------------------------------------------------------

\* the analyzer's loop over the port records of a server, in list order
RECURSIVE AnalyzerServerLoop(_, _)
AnalyzerServerLoop(role, records) ==
    IF Len(records) = 0 THEN role
    ELSE LET step == ServerPortStep(role, Head(records))
         IN  IF step.break THEN step.role
             ELSE AnalyzerServerLoop(step.role, Tail(records))

\* the analyzer's loop over the port records of a client
RECURSIVE AnalyzerClientLoop(_, _)
AnalyzerClientLoop(role, records) ==
    IF Len(records) = 0 THEN role
    ELSE LET step == ClientPortStep(role, Head(records))
         IN  IF step.break THEN step.role
             ELSE AnalyzerClientLoop(step.role, Tail(records))

\* the body of `for host in self.hosts` of infer_host_roles
infer_host_role(data, host, records) ==
    LET incoming == incoming_connections(data, host)
        outgoing == outgoing_connections(data, host)
    IN  IF Dominates(incoming, outgoing) THEN AnalyzerServerLoop("SERVER", records)
        ELSE IF Dominates(outgoing, incoming) THEN AnalyzerClientLoop("CLIENT", records)
        ELSE IF incoming > 0 /\ outgoing > 0
                /\ incoming > gateway_threshold /\ outgoing > gateway_threshold
        THEN "GATEWAY"
        ELSE "UNKNOWN"

\* enrich_host_roles: incoming_connections[host], outgoing_connections[host]
enricher_incoming(data, host) ==
    SumCounts([pair \in { p \in DOMAIN data.connections : p[2] = host } |->
                 data.connections[pair]])

enricher_outgoing(data, host) ==
    SumCounts([pair \in { p \in DOMAIN data.connections : p[1] = host } |->
                 data.connections[pair]])

\* the server chain with no break at port 502
enricher_server_step_no_break(role, record) ==
    LET port == record[1]
    IN  IF record[2] # "dst" THEN [role |-> role, break |-> FALSE]
        ELSE IF port = 502 THEN [role |-> "PLC_MODBUS", break |-> FALSE]
        ELSE IF port = 102 THEN [role |-> "PLC_S7COMM", break |-> TRUE]
        ELSE IF port = 44818 THEN [role |-> "PLC_ETHERNET_IP", break |-> TRUE]
        ELSE IF port = 80 \/ port = 443 \/ port = 8080 \/ port = 8443
             THEN [role |-> "WEB_SERVER", break |-> FALSE]
        ELSE IF port = 53 THEN [role |-> "DNS_SERVER", break |-> FALSE]
        ELSE IF port = 25 THEN [role |-> "MAIL_SERVER", break |-> FALSE]
        ELSE IF port = 21 THEN [role |-> "FTP_SERVER", break |-> FALSE]
        ELSE IF port = 22 THEN [role |-> "SSH_SERVER", break |-> FALSE]
        ELSE IF port = 3306 THEN [role |-> "DATABASE_SERVER", break |-> FALSE]
        ELSE IF port = 1883 THEN [role |-> "MQTT_BROKER", break |-> FALSE]
        ELSE [role |-> role, break |-> FALSE]

\* enrich_host_roles, lines 55-79: one iteration over host_ports[host] of a server
enricher_server_step(role, record) ==
    LET port == record[1]
    IN  IF record[2] # "dst" THEN [role |-> role, break |-> FALSE]
        ELSE IF port = 502 THEN [role |-> "PLC_MODBUS", break |-> TRUE]
        ELSE IF port = 102 THEN [role |-> "PLC_S7COMM", break |-> TRUE]
        ELSE IF port = 44818 THEN [role |-> "PLC_ETHERNET_IP", break |-> TRUE]
        ELSE IF port = 80 \/ port = 443 \/ port = 8080 \/ port = 8443
             THEN [role |-> "WEB_SERVER", break |-> FALSE]
        ELSE IF port = 53 THEN [role |-> "DNS_SERVER", break |-> FALSE]
        ELSE IF port = 25 THEN [role |-> "MAIL_SERVER", break |-> FALSE]
        ELSE IF port = 21 THEN [role |-> "FTP_SERVER", break |-> FALSE]
        ELSE IF port = 22 THEN [role |-> "SSH_SERVER", break |-> FALSE]
        ELSE IF port = 3306 THEN [role |-> "DATABASE_SERVER", break |-> FALSE]
        ELSE IF port = 1883 THEN [role |-> "MQTT_BROKER", break |-> FALSE]
        ELSE [role |-> role, break |-> FALSE]

RECURSIVE EnricherServerLoop(_, _)
EnricherServerLoop(role, records) ==
    IF Len(records) = 0 THEN role
    ELSE LET step == enricher_server_step(role, Head(records))
         IN  IF step.break THEN step.role
             ELSE EnricherServerLoop(step.role, Tail(records))

\* enrich_host_roles, lines 86-90: the loop over host_ports[host] of a client
RECURSIVE EnricherClientLoop(_, _)
EnricherClientLoop(role, records) ==
    IF Len(records) = 0 THEN role
    ELSE LET r == Head(records)
         IN  IF r[2] = "src" /\ r[3] = "TCP"
                /\ (r[1] = 80 \/ r[1] = 443 \/ r[1] = 8080 \/ r[1] = 8443)
             THEN "WEB_CLIENT"
             ELSE EnricherClientLoop(role, Tail(records))

\* the body of `for host in network_data.hosts` of enrich_host_roles
enrich_host_role(data, host, records) ==
    LET incoming == enricher_incoming(data, host)
        outgoing == enricher_outgoing(data, host)
    IN  IF incoming > outgoing * 2 THEN EnricherServerLoop("SERVER", records)
        ELSE IF outgoing > incoming * 2 THEN EnricherClientLoop("CLIENT", records)
        ELSE IF incoming > 0 /\ outgoing > 0
        THEN (IF incoming > 10 /\ outgoing > 10 THEN "GATEWAY" ELSE "UNKNOWN")
        ELSE "UNKNOWN"

\* the data of the comparison: the role inputs with fewer connection counts
EquivCounts == {0, 5, 12, 30}

EquivInputs ==
    { [hosts |-> Hosts, connections |-> ConnectionsOf(there, back),
       host_ports |-> ("10.0.0.1" :> first) @@ ("10.0.0.2" :> second)] :
        there \in EquivCounts, back \in EquivCounts,
        first \in { S \in SUBSET PortRecords : Cardinality(S) <= MaxPortRecords },
        second \in { {}, {<<443, "src", "TCP">>},
                     {<<502, "dst", "TCP">>, <<102, "dst", "TCP">>} } }

EquivFrame == UNCHANGED <<baseVars, renderVars, cleanVars, dataVars, rolesVars, genVars, outputsVars, outgenVars, handlersVars, patternsVars, bundleVars, moveVars, detectVars, subnetsVars>>

EquivInit ==
    /\ eq_data \in EquivInputs
    /\ \E first \in Lists(PortsOf(eq_data, "10.0.0.1")), second \in Lists(PortsOf(eq_data, "10.0.0.2")) :
          eq_order = ("10.0.0.1" :> first) @@ ("10.0.0.2" :> second)
    /\ eq_pc = "running"
    /\ eq_analyzer = << >>
    /\ eq_enricher = << >>
    /\ BaseIdle /\ RenderIdle /\ CleanIdle /\ DataIdle /\ RolesIdle /\ GenIdle /\ OutputsIdle /\ OutgenIdle /\ HandlersIdle /\ PatternsIdle /\ BundleIdle /\ MoveIdle /\ DetectIdle /\ SubnetsIdle

\* infer_host_roles: one iteration of the loop over the hosts
AnalyzerInfer ==
    /\ eq_pc = "running"
    /\ \E host \in eq_data.hosts \ DOMAIN eq_analyzer :
          eq_analyzer' = eq_analyzer @@ (host :> infer_host_role(eq_data, host, eq_order[host]))
    /\ UNCHANGED <<eq_data, eq_order, eq_pc, eq_enricher>>
    /\ EquivFrame

\* enrich_host_roles: one iteration of the loop over the hosts
EnricherEnrich ==
    /\ eq_pc = "running"
    /\ \E host \in eq_data.hosts \ DOMAIN eq_enricher :
          eq_enricher' = eq_enricher @@ (host :> enrich_host_role(eq_data, host, eq_order[host]))
    /\ UNCHANGED <<eq_data, eq_order, eq_pc, eq_analyzer>>
    /\ EquivFrame

\* both methods have returned
EquivEnd ==
    /\ eq_pc = "running"
    /\ DOMAIN eq_analyzer = eq_data.hosts
    /\ DOMAIN eq_enricher = eq_data.hosts
    /\ eq_pc' = "done"
    /\ UNCHANGED <<eq_data, eq_order, eq_analyzer, eq_enricher>>
    /\ EquivFrame

NextEquiv ==
    \/ AnalyzerInfer
    \/ EnricherEnrich
    \/ EquivEnd

SpecEquiv == EquivInit /\ [][NextEquiv]_vars

\* C24: on the same NetworkData and the same iteration order of each host's
\* port set, infer_host_roles and enrich_host_roles (with no role dictionary)
\* give every host the same role.
C24_SameRoles ==
    /\ \A host \in DOMAIN eq_analyzer \cap DOMAIN eq_enricher :
          eq_analyzer[host] = eq_enricher[host]
    /\ eq_pc = "done" => eq_analyzer = eq_enricher

\* both methods have returned for a server whose port set holds 80 before
\* 502, and both call it PLC_MODBUS
C24_Witness ==
    /\ eq_pc = "done"
    /\ Len(eq_order["10.0.0.1"]) >= 2
    /\ eq_order["10.0.0.1"][1] = <<80, "dst", "TCP">>
    /\ eq_order["10.0.0.1"][2] = <<502, "dst", "TCP">>
    /\ eq_analyzer["10.0.0.1"] = "PLC_MODBUS"
    /\ eq_enricher["10.0.0.1"] = "PLC_MODBUS"
    /\ eq_analyzer["10.0.0.2"] \in {"CLIENT", "WEB_CLIENT"}

\* ---------------------------------------------------------------------------
\* AnalysisOrchestrator._run_enrichment_phase (analysis_orchestrator.py) with
\* NetworkEnricher.identify_subnets, the subnet block of
\* NetworkAnalyzer.infer_host_roles and build_network_graph.  An address is
\* the list of its four numbers; one with a number above 255 is a host string
\* ipaddress.ip_address rejects.
\* ---------------------------------------------------------------------------

SubnetHosts ==
    { << 10, 0, 0, 1 >>, << 10, 0, 1, 7 >>, << 10, 9, 0, 2 >>,
      << 192, 168, 1, 5 >>, << 300, 1, 1, 1 >> }

\* ipaddress.ip_address(ip) does not raise
valid_address(ip) == \A i \in DOMAIN ip : ip[i] <= 255

\* str(ipaddress.ip_network(f"{ip}/{prefix}", strict=False))
network(ip, prefix) ==
    ToString(ip[1]) \o "."
    \o (IF prefix >= 16 THEN ToString(ip[2]) ELSE "0") \o "."
    \o (IF prefix >= 24 THEN ToString(ip[3]) ELSE "0") \o ".0/" \o ToString(prefix)

\* identify_subnets, lines 125-128: a host keeps the first network it is given
RECURSIVE FirstNetworks(_, _, _)
FirstNetworks(subnets, hosts, prefixes) ==
    IF Len(prefixes) = 0 THEN subnets
    ELSE FirstNetworks(
            [ip \in DOMAIN subnets \cup hosts |->
                IF ip \in DOMAIN subnets THEN subnets[ip] ELSE network(ip, Head(prefixes))],
            hosts, Tail(prefixes))

\* NetworkEnricher.identify_subnets(network_data): the argument is read
\* through its attribute `hosts`; every exception gives {}
identify_subnets(argument) ==
    IF argument.class # "NetworkData" THEN << >>
    ELSE IF \E ip \in argument.hosts : ~valid_address(ip) THEN << >>
    ELSE FirstNetworks(<< >>, argument.hosts, << 24, 16, 8 >>)

SubnetsFrame == UNCHANGED <<baseVars, renderVars, cleanVars, dataVars, rolesVars, genVars, outputsVars, outgenVars, handlersVars, patternsVars, bundleVars, moveVars, detectVars, equivVars>>

SubnetsInit ==
    /\ sn_hosts \in SUBSET SubnetHosts
    /\ sn_pc = "identify"
    /\ sn_subnets = << >>
    /\ sn_subnet_map = << >>
    /\ sn_prefixes = << >>
    /\ sn_nodes = << >>
    /\ BaseIdle /\ RenderIdle /\ CleanIdle /\ DataIdle /\ RolesIdle /\ GenIdle /\ OutputsIdle /\ OutgenIdle /\ HandlersIdle /\ PatternsIdle /\ BundleIdle /\ MoveIdle /\ DetectIdle /\ EquivIdle

\* subnets = self.enricher.identify_subnets(list(self.analyzer.hosts));
\* self.analyzer.subnets = subnets
IdentifySubnets ==
    /\ sn_pc = "identify"
    /\ sn_subnets' = identify_subnets([class |-> "list", items |-> sn_hosts])
    /\ sn_pc' = "networks"
    /\ UNCHANGED <<sn_hosts, sn_subnet_map, sn_prefixes, sn_nodes>>
    /\ SubnetsFrame

\* infer_host_roles, lines 101-109: the networks of every host are built
BuildNetworks ==
    /\ sn_pc = "networks"
    /\ \A ip \in sn_hosts : valid_address(ip)
    /\ sn_subnet_map' = << >>
    /\ sn_prefixes' = << 24, 16, 8 >>
    /\ sn_pc' = "prefixes"
    /\ UNCHANGED <<sn_hosts, sn_subnets, sn_nodes>>
    /\ SubnetsFrame

\* the same lines, ip_address raises: a warning, self.subnets is left alone
BuildNetworksFails ==
    /\ sn_pc = "networks"
    /\ \E ip \in sn_hosts : ~valid_address(ip)
    /\ sn_pc' = "graph"
    /\ UNCHANGED <<sn_hosts, sn_subnets, sn_subnet_map, sn_prefixes, sn_nodes>>
    /\ SubnetsFrame

\* lines 110-112: one prefix of `for prefix in [24, 16, 8]`,
\* subnet_map[ip] = str(network) for every host
AssignPrefix ==
    /\ sn_pc = "prefixes"
    /\ Len(sn_prefixes) > 0
    /\ sn_subnet_map' = [ip \in sn_hosts |-> network(ip, Head(sn_prefixes))]
    /\ sn_prefixes' = Tail(sn_prefixes)
    /\ UNCHANGED <<sn_hosts, sn_pc, sn_subnets, sn_nodes>>
    /\ SubnetsFrame

\* line 114: self.subnets = subnet_map; the roles are inferred
StoreSubnets ==
    /\ sn_pc = "prefixes"
    /\ Len(sn_prefixes) = 0
    /\ sn_subnets' = sn_subnet_map
    /\ sn_pc' = "graph"
    /\ UNCHANGED <<sn_hosts, sn_subnet_map, sn_prefixes, sn_nodes>>
    /\ SubnetsFrame

\* build_network_graph: add_node(host, ..., subnet=self.subnets.get(host, "UNKNOWN"))
AddNode ==
    /\ sn_pc = "graph"
    /\ \E host \in sn_hosts \ DOMAIN sn_nodes :
          sn_nodes' = sn_nodes @@
              (host :> IF host \in DOMAIN sn_subnets THEN sn_subnets[host] ELSE "UNKNOWN")
    /\ UNCHANGED <<sn_hosts, sn_pc, sn_subnets, sn_subnet_map, sn_prefixes>>
    /\ SubnetsFrame

\* the graph is built, the phase returns True
EnrichmentReturn ==
    /\ sn_pc = "graph"
    /\ DOMAIN sn_nodes = sn_hosts
    /\ sn_pc' = "succeeded"
    /\ UNCHANGED <<sn_hosts, sn_subnets, sn_subnet_map, sn_prefixes, sn_nodes>>
    /\ SubnetsFrame

NextSubnets ==
    \/ IdentifySubnets
    \/ BuildNetworks
    \/ BuildNetworksFails
    \/ AssignPrefix
    \/ StoreSubnets
    \/ AddNode
    \/ EnrichmentReturn

SpecSubnets == SubnetsInit /\ [][NextSubnets]_vars

\* what identify_subnets gives for the data model of the run
ComputedSubnets == identify_subnets([class |-> "NetworkData", hosts |-> sn_hosts])

\* C25: after the enrichment phase has succeeded, the subnet recorded for
\* every host, and the subnet attribute of its node, is the one
\* identify_subnets computes for it from the data model, its /24 network.
C25_SubnetIsComputed ==
    sn_pc = "succeeded" =>
        \A host \in DOMAIN ComputedSubnets :
            /\ host \in DOMAIN sn_subnets
            /\ sn_subnets[host] = ComputedSubnets[host]
            /\ sn_nodes[host] = ComputedSubnets[host]
            /\ ComputedSubnets[host] = network(host, 24)

\* what the phase leaves instead: the /8 network of every host
RecordedIsSlashEight ==
    (sn_pc = "succeeded" /\ \A ip \in sn_hosts : valid_address(ip)) =>
        \A host \in sn_hosts :
            /\ sn_subnets[host] = network(host, 8)
            /\ sn_nodes[host] = network(host, 8)

\* identify_subnets itself gives the /24 network of every host
ComputedIsSlashTwentyFour ==
    \A host \in DOMAIN ComputedSubnets : ComputedSubnets[host] = network(host, 24)
====
